---------------------------- MODULE Spec2Model ----------------------------
(***************************************************************************)
(* Model of the recursive-thinking control loop of                         *)
(* src/custom/recursive_thinking_base.py (BaseRecursiveThinkingAgent).     *)
(*                                                                         *)
(* A text (a Python str) is a sequence of characters; a character is a     *)
(* one-character string.  Two non-ASCII characters are written by name:    *)
(*   "SUP2"  U+00B2 SUPERSCRIPT TWO      str.isdigit() is True, int() fails *)
(*   "AR3"   U+0663 ARABIC-INDIC DIGIT 3 str.isdigit() is True, int() = 3   *)
(* and so are the white-space characters that have no escape: "VT" U+000B, *)
(* "FS" "GS" "RS" "US" U+001C to U+001F, "NEL" U+0085, "NBSP" U+00A0 and   *)
(* "U1680", "U2000" to "U200A", "U2028", "U2029", "U202F", "U205F",        *)
(* "U3000" for the spaces and separators of those code points.             *)
(*                                                                         *)
(* Left out: the timestamps of the log records and file names, the text    *)
(* printed, the wording of the prompts (a prompt is recorded by the values *)
(* formatted into it), and int()'s limit on the number of digits (a        *)
(* ValueError, so 3 rounds).                                               *)
(***************************************************************************)
EXTENDS Integers, Sequences, FiniteSets, TLC

VARIABLES
    conversation_history,  \* self.conversation_history: Seq of [role, content]
    full_thinking_log,     \* self.full_thinking_log: Seq of turn records
    pc,                    \* position of think_and_respond: idle/plan/initial/alt/eval,
                           \* raised once an exception has left it
    user_input,            \* argument of the running turn
    num_alternatives,      \* argument of the running turn
    thinking_rounds,       \* local of think_and_respond
    current_best,          \* local of think_and_respond
    thinking_history,      \* local of think_and_respond: Seq of candidates
    round_num,             \* loop variable of think_and_respond
    alternatives,          \* local of _generate_alternatives (the list being built)
    alt_index,             \* loop variable i of _generate_alternatives
    result,                \* value returned by the last completed turn (<<>>: none yet)
    turns,                 \* history: number of completed turns
    all_messages,          \* history: every message ever appended, in order
    calls,                 \* history: the _call_api calls of the running turn, in issue order
    decisions,             \* history: per finished round of the running/last turn, what was decided
    fn_in,                 \* input of the function under test (function specifications)
    fn_out,                \* its outputs (<<>>: not yet applied)
    heap,                  \* the list objects of the instances of SpecPair, by identity
    agents,                \* those instances: which list each attribute is bound to,
                           \* and the messages sent with the last initial call
    alone,                 \* history: what each instance alone would hold
    repl,                  \* position of main: prompt (at input), exited, done
    last_user_input,       \* local of main (<<>>: None, else << text >>)
    last_result,           \* local of main (<<>>: None, else << result >>)
    files,                 \* the files written so far, in order
    line                   \* history: the line last read at the prompt

pairVars == << heap, agents, alone >>
replVars == << repl, last_user_input, last_result, files, line >>

vars == << conversation_history, full_thinking_log, pc, user_input, num_alternatives,
           thinking_rounds, current_best, thinking_history, round_num, alternatives,
           alt_index, result, turns, all_messages, calls, decisions, fn_in, fn_out, pairVars, replVars >>

turnVars == << conversation_history, full_thinking_log, pc, user_input, num_alternatives,
               thinking_rounds, current_best, thinking_history, round_num, alternatives,
               alt_index, result, turns, all_messages, calls, decisions >>

-----------------------------------------------------------------------------
(* Characters and the str methods the parsers use.                         *)

AsciiDigits == <<"0", "1", "2", "3", "4", "5", "6", "7", "8", "9">>

UpperChars == <<"A", "B", "C", "D", "E", "F", "G", "H", "I", "J", "K", "L", "M",
                "N", "O", "P", "Q", "R", "S", "T", "U", "V", "W", "X", "Y", "Z">>

LowerChars == <<"a", "b", "c", "d", "e", "f", "g", "h", "i", "j", "k", "l", "m",
                "n", "o", "p", "q", "r", "s", "t", "u", "v", "w", "x", "y", "z">>

Range(s) == {s[i] : i \in DOMAIN s}

\* str.isdigit() of one character.
IsDigit(c) == c \in Range(AsciiDigits) \cup {"SUP2", "AR3"}

\* Whether int() accepts the character as a decimal digit.
IsDecimal(c) == c \in Range(AsciiDigits) \cup {"AR3"}

\* The value int() gives a decimal digit.
DigitValue(c) ==
    IF c = "AR3" THEN 3
    ELSE (CHOOSE i \in DOMAIN AsciiDigits : AsciiDigits[i] = c) - 1

\* str.isspace() of one character (the characters str.strip() removes).
IsSpace(c) ==
    c \in {" ", "\t", "\n", "VT", "\f", "\r", "FS", "GS", "RS", "US", "NEL", "NBSP",
           "U1680", "U2000", "U2001", "U2002", "U2003", "U2004", "U2005", "U2006",
           "U2007", "U2008", "U2009", "U200A", "U2028", "U2029", "U202F", "U205F",
           "U3000"}

\* str.lower() of one character.
LowerChar(c) ==
    IF c \in Range(UpperChars)
    THEN LowerChars[CHOOSE i \in DOMAIN UpperChars : UpperChars[i] = c]
    ELSE c

\* str.lower()
Lower(s) == [i \in DOMAIN s |-> LowerChar(s[i])]

\* sub in s
Contains(s, sub) ==
    \E i \in 1..(Len(s) - Len(sub) + 1) : SubSeq(s, i, i + Len(sub) - 1) = sub

\* filter(pred, s) for pred = str.isdigit, joined: the digit characters of s, in order.
DigitsOf(s) == SelectSeq(s, IsDigit)

\* int(s) for a string of isdigit characters: [ok |-> FALSE] stands for ValueError.
RECURSIVE DecimalValue(_)
DecimalValue(s) ==
    IF s = <<>> THEN 0
    ELSE 10 * DecimalValue(SubSeq(s, 1, Len(s) - 1)) + DigitValue(s[Len(s)])

ParseInt(s) ==
    IF s = <<>> \/ \E i \in DOMAIN s : ~IsDecimal(s[i])
    THEN [ok |-> FALSE, value |-> 0]
    ELSE [ok |-> TRUE, value |-> DecimalValue(s)]

\* s.strip()
RECURSIVE LStrip(_)
LStrip(s) == IF s # <<>> /\ IsSpace(Head(s)) THEN LStrip(Tail(s)) ELSE s

RECURSIVE RStrip(_)
RStrip(s) ==
    IF s # <<>> /\ IsSpace(s[Len(s)]) THEN RStrip(SubSeq(s, 1, Len(s) - 1)) ELSE s

Strip(s) == RStrip(LStrip(s))

\* s.split('\n'): always at least one piece.
RECURSIVE SplitLines(_)
SplitLines(s) ==
    IF \A i \in DOMAIN s : s[i] # "\n" THEN << s >>
    ELSE LET k == CHOOSE i \in DOMAIN s :
                      /\ s[i] = "\n"
                      /\ \A j \in 1..(i - 1) : s[j] # "\n"
         IN  << SubSeq(s, 1, k - 1) >> \o SplitLines(SubSeq(s, k + 1, Len(s)))

\* sep.join(parts)
RECURSIVE Join(_, _)
Join(sep, parts) ==
    IF parts = <<>> THEN <<>>
    ELSE IF Len(parts) = 1 THEN parts[1]
    ELSE parts[1] \o sep \o Join(sep, Tail(parts))

Min(a, b) == IF a < b THEN a ELSE b
Max(a, b) == IF a > b THEN a ELSE b


-----------------------------------------------------------------------------
(* Texts the code and its collaborators fix.                               *)

\* 'current' (recursive_thinking_base.py:119)
CurrentWord == <<"c", "u", "r", "r", "e", "n", "t">>

\* "No explanation provided" (recursive_thinking_base.py:120)
Placeholder == <<"N", "o", " ", "e", "x", "p", "l", "a", "n", "a", "t", "i", "o", "n",
                 " ", "p", "r", "o", "v", "i", "d", "e", "d">>

\* "Error: Could not get response from Claude API" (claude_agent.py:76): what
\* _call_api returns when the request fails.
ErrorString == <<"E", "r", "r", "o", "r", ":", " ", "C", "o", "u", "l", "d", " ",
                 "n", "o", "t", " ", "g", "e", "t", " ", "r", "e", "s", "p", "o", "n",
                 "s", "e", " ", "f", "r", "o", "m", " ", "C", "l", "a", "u", "d", "e",
                 " ", "A", "P", "I">>

\* The adapter's call of the model (claude_agent.py:48-76).  What the service
\* does with one request is an outcome: the content chunks it streams, and
\* whether the request or the stream fails after them.
Streamed(chunks) == [failed |-> FALSE, chunks |-> chunks]
Broken(chunks) == [failed |-> TRUE, chunks |-> chunks]

\* full_response += content, chunk after chunk (lines 62-69).
RECURSIVE Concat(_)
Concat(chunks) ==
    IF chunks = <<>> THEN <<>> ELSE Head(chunks) \o Concat(Tail(chunks))

\* A plausible slip: no try/except around the request, its failure leaves the adapter.
CallNativeApiNoCatch(outcome) ==
    IF outcome.failed
    THEN [raised |-> TRUE, text |-> <<>>]
    ELSE [raised |-> FALSE, text |-> Concat(outcome.chunks)]

\* _call_native_api: the text returned, or raised when an exception leaves it.
CallNativeApi(outcome) ==
    IF outcome.failed
    THEN [raised |-> FALSE, text |-> ErrorString]
    ELSE [raised |-> FALSE, text |-> Concat(outcome.chunks)]

\* The streaming adapters of openai_agent.py and the OpenRouter route
\* (claude_agent.py:97-143, the same code in every agent).  What the service
\* sends is a sequence of items, each of a kind:
\*   content    a chunk (native) or a "data: {json}" line (OpenRouter) whose
\*              first choice carries delta content, the text of the item
\*   nochoices  a chunk whose choices are empty, or a data line whose JSON
\*              object has no "choices" or an empty list of them
\*   blank      an empty line                              (OpenRouter only)
\*   comment    a line that does not start with "data: "   (OpenRouter only)
\*   malformed  a data line that is not JSON               (OpenRouter only)
\*   badshape   an item whose handling raises an exception the loop does not
\*              catch: a chunk without the attributes read (native); a line
\*              that is not UTF-8, or a data line whose JSON is not an object
\*              of the shape read, such as 5, null, {"choices": null},
\*              {"choices": [5]}, a null delta or a content that is no string
\*              (OpenRouter)
\*   done       the line "data: [DONE]"                    (OpenRouter only)
\* and the request or the stream may fail after the items listed.
OpenAiErrorString == <<"E", "r", "r", "o", "r", ":", " ", "C", "o", "u", "l",
                       "d", " ", "n", "o", "t", " ", "g", "e", "t", " ", "r",
                       "e", "s", "p", "o", "n", "s", "e", " ", "f", "r", "o",
                       "m", " ", "O", "p", "e", "n", "A", "I", " ", "A", "P",
                       "I">>
OpenRouterErrorString == <<"E", "r", "r", "o", "r", ":", " ", "C", "o", "u",
                           "l", "d", " ", "n", "o", "t", " ", "g", "e", "t",
                           " ", "r", "e", "s", "p", "o", "n", "s", "e", " ",
                           "f", "r", "o", "m", " ", "O", "p", "e", "n", "R",
                           "o", "u", "t", "e", "r", " ", "A", "P", "I">>

Content(text) == [kind |-> "content", text |-> text]
NoChoices == [kind |-> "nochoices", text |-> <<>>]
BlankLine == [kind |-> "blank", text |-> <<>>]
CommentLine == [kind |-> "comment", text |-> <<>>]
MalformedLine == [kind |-> "malformed", text |-> <<>>]
BadShape == [kind |-> "badshape", text |-> <<>>]
DoneLine == [kind |-> "done", text |-> <<>>]

\* openai_agent.py lines 61-66: the loop over the chunks; an exception raised
\* while a chunk is handled leaves the loop for the except clause.
RECURSIVE NativeRead(_, _)
NativeRead(items, full_response) ==
    IF items = <<>>
    THEN [raised |-> FALSE, text |-> full_response]
    ELSE IF Head(items).kind = "badshape"
    THEN [raised |-> TRUE, text |-> full_response]
    ELSE NativeRead(Tail(items),
                    IF Head(items).kind = "content"
                    THEN full_response \o Head(items).text
                    ELSE full_response)

\* claude_agent.py lines 119-136: the loop over the lines, left at [DONE];
\* only json.JSONDecodeError is caught per line, any other exception raised
\* while a line is handled leaves the loop for the except clause.
RECURSIVE OpenRouterRead(_, _)
OpenRouterRead(lines, full_response) ==
    IF lines = <<>>
    THEN [done |-> FALSE, raised |-> FALSE, text |-> full_response]
    ELSE IF Head(lines).kind = "done"
    THEN [done |-> TRUE, raised |-> FALSE, text |-> full_response]
    ELSE IF Head(lines).kind = "badshape"
    THEN [done |-> FALSE, raised |-> TRUE, text |-> full_response]
    ELSE OpenRouterRead(Tail(lines),
                        IF Head(lines).kind = "content"
                        THEN full_response \o Head(lines).text
                        ELSE full_response)

\* A plausible slip: the except clause returns what has been collected so far.
StreamFailedPartial(collected, error) == collected

\* The except clause (openai_agent.py:72-74, claude_agent.py:141-143).
StreamFailed(collected, error) == error

\* openai_agent.py lines 48-74.
CallOpenAiNativeApi(outcome) ==
    [raised |-> FALSE,
     text |-> IF NativeRead(outcome.items, <<>>).raised \/ outcome.failed
              THEN StreamFailed(NativeRead(outcome.items, <<>>).text,
                                OpenAiErrorString)
              ELSE NativeRead(outcome.items, <<>>).text]

\* claude_agent.py lines 97-143: a failure after [DONE] is not met, the loop
\* has been left.
CallOpenRouterApi(outcome) ==
    [raised |-> FALSE,
     text |-> IF \/ OpenRouterRead(outcome.items, <<>>).raised
                 \/ outcome.failed /\ ~OpenRouterRead(outcome.items, <<>>).done
              THEN StreamFailed(OpenRouterRead(outcome.items, <<>>).text,
                                OpenRouterErrorString)
              ELSE OpenRouterRead(outcome.items, <<>>).text]

\* _call_api, lines 41-46 of both files.
CallApi(use_openrouter, outcome) ==
    IF use_openrouter THEN CallOpenRouterApi(outcome) ELSE CallOpenAiNativeApi(outcome)

MinRounds == 1
MaxRounds == 5
DefaultRounds == 3
HistoryLimit == 10

-----------------------------------------------------------------------------
(* _determine_thinking_rounds, lines 61-65: the parse of the reply.        *)

\* A plausible slip: the parsed number returned without the clamp.
DetermineThinkingRoundsNoClamp(response) ==
    LET parsed == ParseInt(DigitsOf(response))
    IN  IF parsed.ok THEN parsed.value ELSE DefaultRounds

DetermineThinkingRounds(response) ==
    LET parsed == ParseInt(DigitsOf(response))      \* int(''.join(filter(str.isdigit, response)))
    IN  IF parsed.ok
        THEN Min(Max(parsed.value, MinRounds), MaxRounds)
        ELSE DefaultRounds                           \* except: return 3

\* A plausible slip: no try/except around the conversion, its ValueError
\* leaves the function.
PlanExceptNone(failed) == failed

\* lines 64-65, a bare "except: return 3": whether an exception of the
\* conversion leaves _determine_thinking_rounds.
PlanExcept(failed) == FALSE

PlanRaises(response) == PlanExcept(~ParseInt(DigitsOf(response)).ok)

-----------------------------------------------------------------------------
(* _evaluate_responses, lines 117-145: the parse of the evaluation reply.  *)

\* lines = [line.strip() for line in evaluation.split('\n') if line.strip()]
EvalLines(evaluation) ==
    LET pieces == SplitLines(evaluation)
        stripped == [i \in DOMAIN pieces |-> Strip(pieces[i])]
    IN  SelectSeq(stripped, LAMBDA l : l # <<>>)

\* A plausible slip: all the digits of the line taken, as the round planner does.
FirstDigitAll(first_line) ==
    IF DigitsOf(first_line) # <<>> THEN DigitsOf(first_line) ELSE CurrentWord

\* for char in first_line: if char.isdigit(): choice = char; break
FirstDigit(first_line) ==
    IF \E i \in DOMAIN first_line : IsDigit(first_line[i])
    THEN LET k == CHOOSE i \in DOMAIN first_line :
                      /\ IsDigit(first_line[i])
                      /\ \A j \in 1..(i - 1) : ~IsDigit(first_line[j])
         IN  << first_line[k] >>
    ELSE CurrentWord

\* A plausible slip: 'current' looked for without lowering the line.
EvalChoiceCaseSensitive(lines) ==
    IF lines = <<>> THEN CurrentWord
    ELSE IF Contains(lines[1], CurrentWord) THEN CurrentWord
         ELSE FirstDigit(Lower(lines[1]))

\* choice, lines 119-130
EvalChoice(lines) ==
    IF lines = <<>> THEN CurrentWord
    ELSE LET first_line == Lower(lines[1])
         IN  IF Contains(first_line, CurrentWord) THEN CurrentWord
             ELSE FirstDigit(first_line)

\* A plausible slip: only the line after the first taken as the rationale.
EvalExplanationSecondLine(lines) ==
    IF Len(lines) > 1 THEN lines[2] ELSE Placeholder

\* explanation, lines 120 and 132-133
EvalExplanation(lines) ==
    IF Len(lines) > 1 THEN Join(<<" ">>, Tail(lines)) ELSE Placeholder

\* A plausible slip: a handler that does not catch int()'s ValueError.
EvalExceptNarrow(failed) == failed

\* except: pass (lines 142-143): whether a failure of int(choice) leaves the function.
EvalExcept(failed) == FALSE

\* A plausible slip: the range test without its lower bound.
EvalIndexNoLowerBound(index, alts) == index < Len(alts)

\* if 0 <= index < len(alternatives) (line 140)
EvalIndexInRange(index, alts) == 0 <= index /\ index < Len(alts)

\* alts[index] of a Python list: a negative index counts from the end, and
\* [ok |-> FALSE] stands for IndexError.
PyGet(alts, index) ==
    IF 0 <= index /\ index < Len(alts) THEN [ok |-> TRUE, value |-> alts[index + 1]]
    ELSE IF index < 0 /\ 0 <= Len(alts) + index
         THEN [ok |-> TRUE, value |-> alts[Len(alts) + index + 1]]
         ELSE [ok |-> FALSE, value |-> <<>>]

\* The caller's list of alternatives after the call: lines 96-145 read it
\* (enumerate, len, indexing) and never assign to it or call a method that
\* changes it.
AlternativesAfterEval(alts) == alts

\* The (winner, explanation) pair returned; raised tells whether an exception
\* left the function instead.
EvaluateResponses(evaluation, best, alts) ==
    LET lines == EvalLines(evaluation)
        choice == EvalChoice(lines)
        explanation == EvalExplanation(lines)
        keep == [winner |-> best, explanation |-> explanation, raised |-> FALSE]
    IN  IF choice = CurrentWord THEN keep
        ELSE LET parsed == ParseInt(choice)                 \* int(choice)
                 index == parsed.value - 1
                 got == PyGet(alts, index)
             IN  IF ~parsed.ok
                 THEN [keep EXCEPT !.raised = EvalExcept(TRUE)]
                 ELSE IF EvalIndexInRange(index, alts)
                      THEN IF got.ok
                           THEN [winner |-> got.value,
                                 explanation |-> explanation, raised |-> FALSE]
                           ELSE [keep EXCEPT !.raised = EvalExcept(TRUE)]
                      ELSE keep

-----------------------------------------------------------------------------
(* think_and_respond, lines 162-241.  A step of the model is the code from  *)
(* one return of _call_api up to the next call of it (or up to the return   *)
(* of think_and_respond).                                                   *)

UserMsg(text) == [role |-> "user", content |-> text]
AssistantMsg(text) == [role |-> "assistant", content |-> text]

\* A candidate of thinking_history.  alternative_number 0 and explanation <<>>
\* stand for an absent key; a present explanation is << text >>.
InitialCandidate(text) ==
    [round |-> 0, response |-> text, selected |-> TRUE,
     alternative_number |-> 0, explanation |-> <<>>]

\* A plausible slip: a failed call's text left out of the list.
CollectDropFailed(alts, alternative) ==
    IF alternative = ErrorString THEN alts ELSE Append(alts, alternative)

\* alternatives.append(alternative) (line 91)
Collect(alts, alternative) == Append(alts, alternative)

\* A plausible slip: the alternatives stored as already selected.
StoreAlternativesSelected(th, r, alts) ==
    th \o [i \in 1..Len(alts) |->
              [round |-> r, response |-> alts[i], selected |-> TRUE,
               alternative_number |-> i, explanation |-> <<>>]]

\* A plausible slip: the newest candidates put in front of the trace.
StoreAlternativesFront(th, r, alts) ==
    [i \in 1..Len(alts) |->
        [round |-> r, response |-> alts[i], selected |-> FALSE,
         alternative_number |-> i, explanation |-> <<>>]] \o th

\* lines 184-190
StoreAlternatives(th, r, alts) ==
    th \o [i \in 1..Len(alts) |->
              [round |-> r, response |-> alts[i], selected |-> FALSE,
               alternative_number |-> i, explanation |-> <<>>]]

\* A plausible slip: the round of the candidate not looked at.
MarkSelectedAnyRound(th, r, new_best, explanation) ==
    [i \in DOMAIN th |->
        IF th[i].response = new_best
        THEN [th[i] EXCEPT !.selected = TRUE, !.explanation = << explanation >>]
        ELSE th[i]]

\* A plausible slip: the candidates the winner supersedes reset to unselected.
MarkSelectedExclusive(th, r, new_best, explanation) ==
    [i \in DOMAIN th |->
        IF th[i].round = r /\ th[i].response = new_best
        THEN [th[i] EXCEPT !.selected = TRUE, !.explanation = << explanation >>]
        ELSE [th[i] EXCEPT !.selected = FALSE]]

\* A plausible slip: the round compared is off by one.
MarkSelectedPreviousRound(th, r, new_best, explanation) ==
    [i \in DOMAIN th |->
        IF th[i].round = r - 1 /\ th[i].response = new_best
        THEN [th[i] EXCEPT !.selected = TRUE, !.explanation = << explanation >>]
        ELSE th[i]]

\* lines 197-200: every candidate of this round with the winner's text
MarkSelected(th, r, new_best, explanation) ==
    [i \in DOMAIN th |->
        IF th[i].round = r /\ th[i].response = new_best
        THEN [th[i] EXCEPT !.selected = TRUE, !.explanation = << explanation >>]
        ELSE th[i]]

\* A plausible slip: the rationale of a kept round put on the newest candidate
\* with the kept text, selected or not.
AttachToLastWithText(th, best, explanation) ==
    LET hits == {i \in DOMAIN th : th[i].response = best}
    IN  IF hits = {} THEN th
        ELSE LET k == CHOOSE i \in hits : \A j \in hits : j <= i
             IN  [th EXCEPT ![k].explanation = << explanation >>]

\* lines 206-209: the first selected candidate, in list order, with the kept text
AttachToCurrent(th, best, explanation) ==
    LET hits == {i \in DOMAIN th : th[i].selected /\ th[i].response = best}
    IN  IF hits = {} THEN th
        ELSE LET k == CHOOSE i \in hits : \A j \in hits : i <= j
             IN  [th EXCEPT ![k].explanation = << explanation >>]

\* A plausible slip: the oldest messages kept instead of the newest.
TrimHistoryOldest(h) ==
    IF Len(h) > HistoryLimit THEN SubSeq(h, 1, HistoryLimit) ELSE h

\* A plausible slip: one message fewer kept than the limit.
TrimHistoryShort(h) ==
    IF Len(h) > HistoryLimit THEN SubSeq(h, Len(h) - HistoryLimit + 2, Len(h)) ELSE h

\* lines 219-220: conversation_history[-10:]
TrimHistory(h) ==
    IF Len(h) > HistoryLimit THEN SubSeq(h, Len(h) - HistoryLimit + 1, Len(h)) ELSE h

\* The temperature of a call, in tenths (lines 58, 170, 90, 113).
PlanTemperature == 3
InitialTemperature == 7
AltTemperature(i) == 7 + i
EvalTemperature == 2

\* The prompts built for the calls, by the values formatted into them
\* (lines 49-54, 81-87, 99-110).
PlanPrompt(prompt) == [template |-> "rounds", prompt |-> prompt]
AltPrompt(prompt, base_response) ==
    [template |-> "alternative", prompt |-> prompt, base_response |-> base_response]
EvalPrompt(prompt, best, alts) ==
    [template |-> "evaluate", prompt |-> prompt, current_best |-> best,
     alternatives |-> alts]

\* The messages handed to _call_api (lines 56, 169, 89, 112).
PlanMessages == << UserMsg(PlanPrompt(user_input)) >>
InitialMessages == conversation_history \o << UserMsg(user_input) >>
\* A plausible slip: each alternative is asked to improve on the one before it.
AltMessagesChained(base_response) ==
    conversation_history \o
        << UserMsg(AltPrompt(user_input,
                             IF alternatives = <<>> THEN base_response
                             ELSE alternatives[Len(alternatives)])) >>
AltMessages(base_response) ==
    conversation_history \o << UserMsg(AltPrompt(user_input, base_response)) >>
\* A plausible slip: the evaluation request is sent after the conversation so
\* far, as the initial and the alternative requests are (lines 166, 79).
EvalMessagesWithHistory(history, prompt, best, alts) ==
    history \o << UserMsg(EvalPrompt(prompt, best, alts)) >>
\* lines 98-112: the evaluation request is the one message built from the
\* arguments; self.conversation_history (history) is not read.
EvalMessagesOf(history, prompt, best, alts) ==
    << UserMsg(EvalPrompt(prompt, best, alts)) >>
EvalMessages ==
    EvalMessagesOf(conversation_history, user_input, current_best, alternatives)

\* One call of _call_api as the history variable calls records it: the round
\* it was made in, what it was given and what it returned.
Call(kind, temp, messages, ret) ==
    [kind |-> kind, round |-> round_num, temperature |-> temp,
     messages |-> messages, ret |-> ret]

TurnInit ==
    /\ conversation_history = <<>>
    /\ full_thinking_log = <<>>
    /\ pc = "idle"
    /\ user_input = <<>>
    /\ num_alternatives = 0
    /\ thinking_rounds = 0
    /\ current_best = <<>>
    /\ thinking_history = <<>>
    /\ round_num = 0
    /\ alternatives = <<>>
    /\ alt_index = 0
    /\ result = <<>>
    /\ turns = 0
    /\ all_messages = <<>>
    /\ calls = <<>>
    /\ decisions = <<>>

\* Before any instance of SpecPair is constructed.
NoInstances ==
    /\ heap = <<>>
    /\ agents = <<>>
    /\ alone = <<>>

\* main before its loop (recursive_thinking_agents.py:188-190).
ReplInit ==
    /\ repl = "prompt"
    /\ last_user_input = <<>>
    /\ last_result = <<>>
    /\ files = <<>>
    /\ line = <<>>

\* think_and_respond is entered (line 147).
StartTurn(u, n) ==
    /\ pc \in { "idle", "raised" }
    /\ pc' = "plan"
    /\ user_input' = u
    /\ num_alternatives' = n
    /\ thinking_rounds' = 0
    /\ current_best' = <<>>
    /\ thinking_history' = <<>>
    /\ round_num' = 0
    /\ alternatives' = <<>>
    /\ alt_index' = 0
    /\ calls' = <<>>
    /\ decisions' = <<>>
    /\ UNCHANGED << conversation_history, full_thinking_log, result, turns,
                    all_messages, fn_in, fn_out, pairVars, replVars >>

\* The round loop goes on with round r (lines 176-181): the next call is the
\* first alternative's, or the evaluation's when no alternative is asked for.
Continue(th, best, r) ==
    /\ thinking_history' = th
    /\ current_best' = best
    /\ round_num' = r
    /\ alternatives' = <<>>
    /\ alt_index' = 0
    /\ pc' = IF 0 < num_alternatives THEN "alt" ELSE "eval"
    /\ UNCHANGED << conversation_history, full_thinking_log, result, turns, all_messages >>

\* A plausible slip: the session log holds the last turn only.
FinishLatestOnly(th, best, rounds) ==
    /\ thinking_history' = th
    /\ current_best' = best
    /\ conversation_history' =
          TrimHistory(conversation_history \o << UserMsg(user_input), AssistantMsg(best) >>)
    /\ full_thinking_log' =
          << [user_input |-> user_input, final_response |-> best,
              thinking_rounds |-> rounds, thinking_history |-> th] >>
    /\ result' = << [response |-> best, thinking_rounds |-> rounds,
                     thinking_history |-> th] >>
    /\ turns' = turns + 1
    /\ all_messages' = all_messages \o << UserMsg(user_input), AssistantMsg(best) >>
    /\ pc' = "idle"
    /\ UNCHANGED << round_num, alternatives, alt_index >>

\* The loop is over: lines 214-241.
Finish(th, best, rounds) ==
    /\ thinking_history' = th
    /\ current_best' = best
    /\ conversation_history' =
          TrimHistory(conversation_history \o << UserMsg(user_input), AssistantMsg(best) >>)
    /\ full_thinking_log' =
          Append(full_thinking_log,
                 [user_input |-> user_input, final_response |-> best,
                  thinking_rounds |-> rounds, thinking_history |-> th])
    /\ result' = << [response |-> best, thinking_rounds |-> rounds,
                     thinking_history |-> th] >>
    /\ turns' = turns + 1
    /\ all_messages' = all_messages \o << UserMsg(user_input), AssistantMsg(best) >>
    /\ pc' = "idle"
    /\ UNCHANGED << round_num, alternatives, alt_index >>

\* The planning call returns (lines 58-65, 162).
PlanCall(reply) ==
    /\ pc = "plan"
    /\ calls' = Append(calls, Call("plan", PlanTemperature, PlanMessages, reply))
    /\ IF PlanRaises(reply)
       THEN \* the exception leaves think_and_respond
            pc' = "raised" /\ UNCHANGED thinking_rounds
       ELSE /\ thinking_rounds' = DetermineThinkingRounds(reply)
            /\ pc' = "initial"
    /\ UNCHANGED << conversation_history, full_thinking_log, user_input, num_alternatives,
                    current_best, thinking_history, round_num, alternatives, alt_index,
                    result, turns, all_messages, decisions, fn_in, fn_out, pairVars, replVars >>

\* The initial-answer call returns (lines 170-176).
InitialCall(reply) ==
    /\ pc = "initial"
    /\ calls' = Append(calls, Call("initial", InitialTemperature, InitialMessages, reply))
    /\ IF 1 <= thinking_rounds
       THEN Continue(<< InitialCandidate(reply) >>, reply, 1)
       ELSE Finish(<< InitialCandidate(reply) >>, reply, thinking_rounds)
    /\ UNCHANGED << user_input, num_alternatives, thinking_rounds, decisions, fn_in, fn_out, pairVars, replVars >>

\* A plausible slip: an alternative call that failed is made again.
AltCallRetry(reply) ==
    /\ pc = "alt"
    /\ calls' = Append(calls, Call("alt", AltTemperature(alt_index),
                                 AltMessages(current_best), reply))
    /\ LET failed == reply = ErrorString /\ Len(calls) < 12
           alts == IF failed THEN alternatives ELSE Collect(alternatives, reply)
           i == IF failed THEN alt_index ELSE alt_index + 1
       IN  /\ alternatives' = alts
           /\ alt_index' = i
           /\ IF i < num_alternatives
              THEN UNCHANGED << thinking_history, pc >>
              ELSE /\ thinking_history' = StoreAlternatives(thinking_history, round_num, alts)
                   /\ pc' = "eval"
    /\ UNCHANGED << conversation_history, full_thinking_log, user_input, num_alternatives,
                    thinking_rounds, current_best, round_num, result, turns,
                    all_messages, decisions, fn_in, fn_out, pairVars, replVars >>

\* One alternative call returns (lines 90-91); after the last one
\* _generate_alternatives returns and its list is stored (lines 181-190).
AltCall(reply) ==
    /\ pc = "alt"
    /\ calls' = Append(calls, Call("alt", AltTemperature(alt_index),
                                 AltMessages(current_best), reply))
    /\ LET alts == Collect(alternatives, reply)
       IN  /\ alternatives' = alts
           /\ alt_index' = alt_index + 1
           /\ IF alt_index + 1 < num_alternatives
              THEN UNCHANGED << thinking_history, pc >>
              ELSE /\ thinking_history' = StoreAlternatives(thinking_history, round_num, alts)
                   /\ pc' = "eval"
    /\ UNCHANGED << conversation_history, full_thinking_log, user_input, num_alternatives,
                    thinking_rounds, current_best, round_num, result, turns,
                    all_messages, decisions, fn_in, fn_out, pairVars, replVars >>

\* The evaluation call returns: the reply is parsed (lines 113-145), the
\* selection is recorded (lines 193-212) and the loop goes on or ends.
EvalCall(reply) ==
    /\ pc = "eval"
    /\ calls' = Append(calls, Call("eval", EvalTemperature, EvalMessages, reply))
    /\ LET ev == EvaluateResponses(reply, current_best, alternatives)
           changed == ev.winner # current_best
           th == IF changed
                 THEN MarkSelected(thinking_history, round_num, ev.winner, ev.explanation)
                 ELSE AttachToCurrent(thinking_history, current_best, ev.explanation)
       IN  IF ev.raised
           THEN \* the exception leaves think_and_respond
                /\ pc' = "raised"
                /\ UNCHANGED << conversation_history, full_thinking_log, current_best,
                                thinking_history, round_num, alternatives, alt_index,
                                result, turns, all_messages, decisions >>
           ELSE /\ decisions' = Append(decisions,
                                       [round |-> round_num, changed |-> changed,
                                        previous |-> current_best, winner |-> ev.winner,
                                        explanation |-> ev.explanation,
                                        alternatives |-> alternatives])
                /\ IF round_num < thinking_rounds
                   THEN Continue(th, ev.winner, round_num + 1)
                   ELSE Finish(th, ev.winner, thinking_rounds)
    /\ UNCHANGED << user_input, num_alternatives, thinking_rounds, fn_in, fn_out, pairVars, replVars >>

\* A plausible slip: the conversation is recorded on the way out as well (as
\* in a finally clause), with the best answer so far.
RaiseRecordsPartial ==
    /\ pc' = "raised"
    /\ conversation_history' =
          TrimHistory(conversation_history
                          \o << UserMsg(user_input), AssistantMsg(current_best) >>)
    /\ UNCHANGED << full_thinking_log, user_input, num_alternatives,
                    thinking_rounds, current_best, thinking_history, round_num,
                    alternatives, alt_index, result, turns, all_messages, calls,
                    decisions, fn_in, fn_out, pairVars, replVars >>

\* An exception leaves think_and_respond while a call is pending: the locals of
\* the turn are lost and nothing of lines 214-241 runs.
Raise ==
    /\ pc' = "raised"
    /\ UNCHANGED << conversation_history, full_thinking_log, user_input, num_alternatives,
                    thinking_rounds, current_best, thinking_history, round_num,
                    alternatives, alt_index, result, turns, all_messages, calls,
                    decisions, fn_in, fn_out, pairVars, replVars >>

\* The pending call of _call_api raises (as the base class's does, line 45):
\* none of the callers catches it (lines 58, 90, 113, 170 are outside any try).
CallRaises ==
    /\ pc \in { "plan", "initial", "alt", "eval" }
    /\ Raise

\* The pending call goes through the adapter: its text is handed to the code
\* waiting for it, or its exception propagates.
PlanReturns(outcome) ==
    /\ pc = "plan"
    /\ LET r == CallNativeApi(outcome)
       IN  IF r.raised THEN Raise ELSE PlanCall(r.text)

InitialReturns(outcome) ==
    /\ pc = "initial"
    /\ LET r == CallNativeApi(outcome)
       IN  IF r.raised THEN Raise ELSE InitialCall(r.text)

AltReturns(outcome) ==
    /\ pc = "alt"
    /\ LET r == CallNativeApi(outcome)
       IN  IF r.raised THEN Raise ELSE AltCall(r.text)

EvalReturns(outcome) ==
    /\ pc = "eval"
    /\ LET r == CallNativeApi(outcome)
       IN  IF r.raised THEN Raise ELSE EvalCall(r.text)

-----------------------------------------------------------------------------
(* Several instances.  A turn is one synchronous call of think_and_respond, *)
(* so the turns of two instances interleave as whole turns; a whole turn is *)
(* computed from the replies its calls get, in the order it makes them.     *)

\* One round, lines 186-212, given its alternatives and its evaluation pair:
\* the alternatives are stored, then the winner is marked or, on keep, the
\* explanation attached; the winner is the new best.
Round(state, r, alts, ev) ==
    [response |-> ev.winner,
     thinking_history |->
         IF ev.winner # state.response
         THEN MarkSelected(StoreAlternatives(state.thinking_history, r, alts),
                           r, ev.winner, ev.explanation)
         ELSE AttachToCurrent(StoreAlternatives(state.thinking_history, r, alts),
                              state.response, ev.explanation)]

\* The round loop, lines 176-212, from round r on.
RECURSIVE RunRounds(_, _, _, _, _)
RunRounds(state, r, rounds, n, replies) ==
    IF r > rounds
    THEN state
    ELSE RunRounds(Round(state, r, SubSeq(replies, 1, n),
                         EvaluateResponses(replies[n + 1], state.response,
                                           SubSeq(replies, 1, n))),
                   r + 1, rounds, n, SubSeq(replies, n + 2, Len(replies)))

\* Lines 235-241: what a turn returns.
TurnResult(rounds, done) ==
    [response |-> done.response, thinking_rounds |-> rounds,
     thinking_history |-> done.thinking_history]

\* think_and_respond, lines 162-212 and 235-241: the planning reply, the initial
\* answer, then per round the alternatives and the evaluation reply.
RunTurn(n, replies) ==
    TurnResult(DetermineThinkingRounds(replies[1]),
               RunRounds([response |-> replies[2],
                          thinking_history |-> << InitialCandidate(replies[2]) >>],
                         1, DetermineThinkingRounds(replies[1]), n,
                         SubSeq(replies, 3, Len(replies))))

\* A plausible slip: the two lists are class attributes, one pair for all instances.
ConstructShared(h) ==
    IF h = <<>>
    THEN [heap |-> << <<>>, <<>> >>,
          self |-> [conversation_history |-> 1, full_thinking_log |-> 2]]
    ELSE [heap |-> h, self |-> [conversation_history |-> 1, full_thinking_log |-> 2]]

\* __init__, lines 20-21: two new empty lists, bound to the instance's attributes.
Construct(h) ==
    [heap |-> h \o << <<>>, <<>> >>,
     self |-> [conversation_history |-> Len(h) + 1, full_thinking_log |-> Len(h) + 2]]

\* An instance is constructed.
CreateAgent ==
    /\ Len(agents) < 2
    /\ LET made == Construct(heap)
       IN  /\ heap' = made.heap
           /\ agents' = Append(agents,
                               [conversation_history |-> made.self.conversation_history,
                                full_thinking_log |-> made.self.full_thinking_log,
                                sent |-> <<>>])
    /\ alone' = Append(alone, [conversation_history |-> <<>>, full_thinking_log |-> <<>>,
                               sent |-> <<>>])
    /\ UNCHANGED << turnVars, fn_in, fn_out, replVars >>

\* A whole turn of instance a (lines 147-241) that returns out: the context it sends with the
\* initial call is read from its conversation list (line 169); the pair of
\* messages is appended to that list in place (lines 215-216); the attribute is
\* bound to a new list when more than 10 are held (lines 219-220); the record
\* is appended to its log list in place (lines 223-229).
TurnOf(a, u, out) ==
    LET me == agents[a]
        conv == me.conversation_history
        pair == << UserMsg(u), AssistantMsg(out.response) >>
        record == [user_input |-> u, final_response |-> out.response,
                   thinking_rounds |-> out.thinking_rounds,
                   thinking_history |-> out.thinking_history]
        appended == [heap EXCEPT ![conv] = @ \o pair]
        rebound == Len(appended[conv]) > HistoryLimit
        trimmed == IF rebound THEN Append(appended, TrimHistory(appended[conv]))
                   ELSE appended
    IN  /\ heap' = [trimmed EXCEPT ![me.full_thinking_log] = Append(@, record)]
        /\ agents' = [agents EXCEPT
                         ![a].conversation_history = IF rebound THEN Len(trimmed) ELSE conv,
                         ![a].sent = heap[conv] \o << UserMsg(u) >>]
        /\ alone' = [alone EXCEPT
                        ![a].conversation_history = TrimHistory(@ \o pair),
                        ![a].full_thinking_log = Append(@, record),
                        ![a].sent = alone[a].conversation_history \o << UserMsg(u) >>]
        /\ UNCHANGED << turnVars, fn_in, fn_out, replVars >>

\* think_and_respond(u) on instance a, its calls answered by replies.
PairTurn(a, u, n, replies) == TurnOf(a, u, RunTurn(n, replies))

-----------------------------------------------------------------------------
(* The interactive loop of main (recursive_thinking_agents.py:188-247) over *)
(* one agent.  An iteration of the loop runs from one input() to the next,  *)
(* a whole turn of the agent included.                                      *)

CmdExit == <<"e", "x", "i", "t">>
CmdSave == <<"s", "a", "v", "e">>
CmdSaveFull == <<"s", "a", "v", "e", " ", "f", "u", "l", "l">>
CmdSaveMd == <<"s", "a", "v", "e", " ", "m", "d">>
AnswerYes == <<"y">>

\* A plausible slip: the reserved words compared without lower().
TrimmedOnly(raw) == Strip(raw)

\* What the reserved words are compared with: user_input.lower() (lines 195-203).
Lowered(raw) == Lower(raw)

\* Python's truth of the locals tested at line 204 (None, '' and {} are false).
Truthy(opt) == opt # <<>> /\ opt[1] # <<>>

\* save_conversation (recursive_thinking_base.py:257-268): the file written.
ConversationFile(conv) == [kind |-> "conversation", conversation |-> conv]

\* save_full_log (recursive_thinking_base.py:243-255): the file written.
FullLogFile(conv, log) ==
    [kind |-> "full", conversation |-> conv, full_thinking_log |-> log]

\* save_response_as_markdown (recursive_thinking_base.py:289-311): the file
\* written, by the values put into it: per candidate its round, its status,
\* its text and, for a selected candidate that has one, its reason.
MarkdownFile(u, res) ==
    [kind |-> "markdown", user_input |-> u, response |-> res.response,
     thinking_rounds |-> res.thinking_rounds,
     items |-> [i \in DOMAIN res.thinking_history |->
                   [round |-> res.thinking_history[i].round,
                    selected |-> res.thinking_history[i].selected,
                    response |-> res.thinking_history[i].response,
                    reason |-> IF res.thinking_history[i].selected
                               THEN res.thinking_history[i].explanation
                               ELSE <<>>]]]

\* Lines 212-237: the turn, the locals kept for 'save md', the auto-save.
ReplTurn(u, n, replies) ==
    /\ conversation_history' =
          TrimHistory(conversation_history
                          \o << UserMsg(u), AssistantMsg(RunTurn(n, replies).response) >>)
    /\ full_thinking_log' =
          Append(full_thinking_log,
                 [user_input |-> u, final_response |-> RunTurn(n, replies).response,
                  thinking_rounds |-> RunTurn(n, replies).thinking_rounds,
                  thinking_history |-> RunTurn(n, replies).thinking_history])
    /\ result' = << RunTurn(n, replies) >>
    /\ turns' = turns + 1
    /\ all_messages' = all_messages
                           \o << UserMsg(u), AssistantMsg(RunTurn(n, replies).response) >>
    /\ last_user_input' = << u >>
    /\ last_result' = << RunTurn(n, replies) >>
    /\ files' = Append(files, MarkdownFile(u, RunTurn(n, replies)))
    /\ UNCHANGED repl

\* A command that writes a file, or nothing, and goes back to the prompt.
ReplWrites(written) ==
    /\ files' = files \o written
    /\ UNCHANGED << conversation_history, full_thinking_log, result, turns,
                    all_messages, last_user_input, last_result, repl >>

\* One iteration of the loop (lines 192-237): raw is what input() returns, n is
\* args.alternatives, replies are what the calls of the turn get if one is run.
ReplLine(raw, n, replies) ==
    /\ repl = "prompt"
    /\ line' = raw
    /\ IF Lowered(Strip(raw)) = CmdExit
       THEN /\ repl' = "exited"
            /\ UNCHANGED << conversation_history, full_thinking_log, result, turns,
                            all_messages, last_user_input, last_result, files >>
       ELSE IF Lowered(Strip(raw)) = CmdSave
       THEN ReplWrites(<< ConversationFile(conversation_history) >>)
       ELSE IF Lowered(Strip(raw)) = CmdSaveFull
       THEN ReplWrites(<< FullLogFile(conversation_history, full_thinking_log) >>)
       ELSE IF Lowered(Strip(raw)) = CmdSaveMd
       THEN IF Truthy(last_user_input) /\ Truthy(last_result)
            THEN ReplWrites(<< MarkdownFile(last_user_input[1], last_result[1]) >>)
            ELSE ReplWrites(<<>>)
       ELSE IF Strip(raw) = <<>>
       THEN ReplWrites(<<>>)
       ELSE ReplTurn(Strip(raw), n, replies)
    /\ UNCHANGED << pc, user_input, num_alternatives, thinking_rounds, current_best,
                    thinking_history, round_num, alternatives, alt_index, calls,
                    decisions, fn_in, fn_out, pairVars >>

\* After the loop (lines 239-245): the two questions and the files they ask for.
SaveOnExit(save_on_exit, save_full) ==
    /\ repl = "exited"
    /\ repl' = "done"
    /\ files' = files
          \o (IF Lower(Strip(save_on_exit)) = AnswerYes
              THEN << ConversationFile(conversation_history) >>
                       \o (IF Lower(Strip(save_full)) = AnswerYes
                           THEN << FullLogFile(conversation_history, full_thinking_log) >>
                           ELSE <<>>)
              ELSE <<>>)
    /\ UNCHANGED << turnVars, fn_in, fn_out, pairVars, last_user_input, last_result, line >>

-----------------------------------------------------------------------------
(* Inputs.                                                                  *)

MaxAlternatives == 2     \* num_alternatives ranges over 0..MaxAlternatives
MaxTurns == 6            \* turns of one agent in SpecConv
MaxCtxTurns == 2         \* turns of one agent in SpecCtx
MaxPairTurns == 7        \* turns of the two agents of SpecPair, together
MaxReplLines == 3        \* files written and turns taken in SpecRepl before the prompt is closed
MaxRaiseTurns == 2       \* completed turns in SpecRaise
MaxIdemTurns == 2        \* turns of the agent in SpecIdem
MaxStreamLen == 3        \* items of the streams enumerated in SpecStream
MaxManyAlternatives == 15 \* num_alternatives ranges over 0..MaxManyAlternatives in SpecTemp
MaxPlanLen == 3          \* length of the planning replies enumerated in SpecPlan
MaxEvalLines == 3        \* lines of the evaluation replies enumerated in SpecEval
MaxEvalAlts == 3         \* alternatives handed to _evaluate_responses in SpecEval

NL == <<"\n">>

TextA == <<"A">>
TextB == <<"B">>
ExplainRecursion == <<"E", "x", "p", "l", "a", "i", "n", " ", "r", "e", "c", "u", "r", "s", "i", "o", "n">>
MoreConcise == <<"m", "o", "r", "e", " ", "c", "o", "n", "c", "i", "s", "e">>

\* What _call_api may return to the planning call of a turn.
PlanReplies == { <<"1">>, <<"2">>, ErrorString }

\* What it may return as an answer: to the initial call, to an alternative call.
InitialAnswers == { TextA, TextB, ErrorString }
AltAnswers == { TextA, ErrorString }

\* What it may return to the evaluation call of a round.
ReplyCurrent == CurrentWord
ReplyKeepFine == <<"C", "u", "r", "r", "e", "n", "t", "\n", "f", "i", "n", "e">>
ReplyOneFirst == <<"1", "\n", "f", "i", "r", "s", "t">>
ReplyTwoConcise == <<"2">> \o NL \o MoreConcise
EvalReplies == { ReplyCurrent, ReplyKeepFine, ReplyOneFirst, ReplyTwoConcise }

\* The outcomes of the service behind a set of replies: a text is streamed as one
\* chunk; the error string is what a request gives that fails, at once or after
\* a first chunk.
Failures == { Broken(<<>>), Broken(<< TextA >>) }
Served(replies) ==
    { Streamed(<< r >>) : r \in replies \ { ErrorString } }
        \cup (IF ErrorString \in replies THEN Failures ELSE {})
PlanOutcomes == Served(PlanReplies)
InitialOutcomes == Served(InitialAnswers)
AltOutcomes == Served(AltAnswers)
EvalOutcomes ==
    Served(EvalReplies \ { ReplyTwoConcise })
        \cup { Streamed(<< <<"2">> \o NL, MoreConcise >>) }

\* The prompt of turn k in SpecConv: a different text every turn.
Prompt(k) == <<"Q", AsciiDigits[k + 1]>>

\* All texts over an alphabet up to a length.
TextsUpTo(alphabet, n) == UNION { [1..k -> alphabet] : k \in 0..n }

\* Planning replies for SpecPlan.
PlanAlphabet == {"0", "1", "3", "6", "-", " ", "x", "SUP2", "AR3"}
PlanInputs == TextsUpTo(PlanAlphabet, MaxPlanLen) \cup { ErrorString }

\* Evaluation replies for SpecEval: up to MaxEvalLines lines joined by '\n',
\* and the replies the specification gives as examples.
Reason == <<"r", "e", "a", "s", "o", "n">>
WhyNotPadded == <<"\t", "W", "h", "y", " ", "n", "o", "t", ".", " ">>
EvalLineSet ==
    { <<>>,
      <<" ", "\f">>,
      CurrentWord,
      <<"2", " ", "i", "s", " ", "b", "e", "t", "t", "e", "r", " ", "t", "h", "a", "n", " ", "C", "u", "r", "r", "e", "n", "t">>,
      <<" ", "2">>,
      <<"1", "2">>,
      <<"7">>,
      <<"0">>,
      <<"SUP2", "2">>,
      <<"O", "p", "t", "i", "o", "n", " ", "3", "!">>,
      WhyNotPadded }
BecauseClearer == <<"B", "e", "c", "a", "u", "s", "e", " ", "i", "t", "'", "s", " ", "c", "l", "e", "a", "r", "e", "r", ".">>
EvalInputs ==
    { Join(NL, ls) : ls \in TextsUpTo(EvalLineSet, MaxEvalLines) }
        \cup { <<"2">> \o NL \o BecauseClearer,
               <<"7">> \o NL \o Reason,
               <<"7">> \o NL \o WhyNotPadded \o NL \o Reason,
               ErrorString }

\* The alternatives handed over in SpecEval: n different texts, none the current best.
AltText(i) == <<"a", "l", "t", AsciiDigits[i + 1]>>
AltTexts(n) == [i \in 1..n |-> AltText(i)]
BestText == <<"b", "e", "s", "t">>

-----------------------------------------------------------------------------
(* Specifications.                                                          *)

Init ==
    /\ TurnInit
    /\ NoInstances
    /\ ReplInit
    /\ fn_in = <<>>
    /\ fn_out = <<>>

\* Spec: one turn of a fresh agent, the outcome of every call drawn from the sets above.
Next ==
    \/ turns < 1 /\ \E n \in 0..MaxAlternatives : StartTurn(ExplainRecursion, n)
    \/ \E outcome \in PlanOutcomes : PlanReturns(outcome)
    \/ \E outcome \in InitialOutcomes : InitialReturns(outcome)
    \/ \E outcome \in AltOutcomes : AltReturns(outcome)
    \/ \E outcome \in EvalOutcomes : EvalReturns(outcome)

Spec == Init /\ [][Next]_vars


\* SpecConv: up to MaxTurns turns of one agent, one round of one alternative each.
NextConv ==
    \/ turns < MaxTurns /\ StartTurn(Prompt(turns + 1), 1)
    \/ PlanCall(<<"1">>)
    \/ \E reply \in { TextA, ErrorString } : InitialCall(reply)
    \/ AltCall(TextB)
    \/ \E reply \in { ReplyCurrent, ReplyOneFirst } : EvalCall(reply)

SpecConv == Init /\ [][NextConv]_vars

\* SpecCtx: up to MaxCtxTurns turns of one agent, one or two rounds of two
\* alternatives each, so that the calls of a round are made with a conversation
\* of earlier turns behind them.
NextCtx ==
    \/ turns < MaxCtxTurns /\ StartTurn(Prompt(turns + 1), 2)
    \/ \E reply \in { <<"1">>, <<"2">> } : PlanCall(reply)
    \/ \E reply \in { TextA, ErrorString } : InitialCall(reply)
    \/ AltCall(TextB)
    \/ \E reply \in { ReplyCurrent, ReplyTwoConcise } : EvalCall(reply)

SpecCtx == Init /\ [][NextCtx]_vars

\* SpecLive: one turn of a fresh agent, of one or two rounds, every call of the
\* model returning sooner or later, with a text or failed.
NextLive ==
    \/ turns < 1 /\ \E n \in 0..MaxAlternatives : StartTurn(ExplainRecursion, n)
    \/ \E reply \in { <<"1">>, <<"2">> } : PlanCall(reply)
    \/ \E reply \in { TextA, ErrorString } : InitialCall(reply)
    \/ \E reply \in { TextB, ErrorString } : AltCall(reply)
    \/ \E reply \in { ReplyCurrent, ReplyOneFirst } : EvalCall(reply)

SpecLive == Init /\ [][NextLive]_vars /\ WF_vars(NextLive)

\* SpecTemp: one turn of one round with up to MaxManyAlternatives alternatives,
\* every call answered by a text.
NextTemp ==
    \/ turns < 1 /\ \E n \in 0..MaxManyAlternatives : StartTurn(ExplainRecursion, n)
    \/ PlanCall(<<"1">>)
    \/ InitialCall(TextA)
    \/ AltCall(TextB)
    \/ \E reply \in { ReplyCurrent, ReplyOneFirst } : EvalCall(reply)

SpecTemp == Init /\ [][NextTemp]_vars

\* SpecStream: one streaming call through _call_api of an agent.  A native
\* stream holds chunks only; an OpenRouter stream holds lines of every kind and
\* [DONE], if sent, is its last line; a failed stream has not come to [DONE].
NativeItems == { Content(TextA), Content(TextB), Content(<<>>), NoChoices, BadShape }
OpenRouterLines ==
    NativeItems \cup { BlankLine, CommentLine, MalformedLine }
StreamInputs ==
    [use_openrouter : {FALSE}, failed : BOOLEAN,
     items : TextsUpTo(NativeItems, MaxStreamLen)]
      \cup [use_openrouter : {TRUE}, failed : BOOLEAN,
            items : TextsUpTo(OpenRouterLines, MaxStreamLen)]
      \cup [use_openrouter : {TRUE}, failed : {FALSE},
            items : { Append(ls, DoneLine) : ls \in TextsUpTo(OpenRouterLines, MaxStreamLen) }]

InitStream ==
    /\ TurnInit
    /\ NoInstances
    /\ ReplInit
    /\ fn_in \in StreamInputs
    /\ fn_out = <<>>

ApplyStream ==
    /\ fn_out = <<>>
    /\ fn_out' = << CallApi(fn_in.use_openrouter, [failed |-> fn_in.failed,
                                                   items |-> fn_in.items]) >>
    /\ UNCHANGED << fn_in, turnVars, pairVars, replVars >>

SpecStream == InitStream /\ [][ApplyStream]_vars

\* SpecRepl: up to MaxReplLines lines are typed at the prompt of main, run with
\* --alternatives 1; then the questions on exit are answered.
ReplInputs ==
    { CmdExit, <<" ", "VT", "E", "X", "I", "T">>, <<"S", "a", "v", "e">>, CmdSaveFull,
      <<"S", "A", "V", "E", " ", " ", "F", "U", "L", "L">>,
      CmdSaveMd, <<"S", "a", "v", "e", " ", "M", "D", "\t">>,
      <<>>, <<"\f", "NBSP">>, <<"s", "a", "v", "e", " ", "m", "e">> }

NextRepl ==
    \/ /\ Len(files) + turns < MaxReplLines
       /\ \E raw \in ReplInputs :
              \E reply \in { ReplyCurrent, ReplyOneFirst } :
                  ReplLine(raw, 1, << <<"1">>, TextA, TextB, reply >>)
    \/ \E a, b \in { AnswerYes, <<"Y", " ">>, <<"n">> } : SaveOnExit(a, b)

SpecRepl == Init /\ [][NextRepl]_vars

\* SpecRaise: up to MaxRaiseTurns completed turns of one agent whose calls may
\* raise instead of returning; the caller of think_and_respond may go on with
\* a further turn after an exception.
NextRaise ==
    \/ turns < MaxRaiseTurns /\ StartTurn(Prompt(turns + 1), 2)
    \/ \E reply \in { <<"1">>, <<"2">> } : PlanCall(reply)
    \/ InitialCall(TextA)
    \/ AltCall(TextB)
    \/ \E reply \in { ReplyCurrent, ReplyOneFirst } : EvalCall(reply)
    \/ CallRaises

SpecRaise == Init /\ [][NextRaise]_vars

\* SpecPair: two instances are constructed and take up to MaxPairTurns turns
\* between them, in any order; every turn has its own prompt, one round and one
\* alternative.
PairTurnsTaken ==
    Len(alone[1].full_thinking_log)
        + (IF Len(alone) = 2 THEN Len(alone[2].full_thinking_log) ELSE 0)

NextPair ==
    \/ CreateAgent
    \/ /\ agents # <<>>
       /\ PairTurnsTaken < MaxPairTurns
       /\ \E a \in DOMAIN agents :
              \E reply \in { ReplyCurrent, ReplyOneFirst } :
                  PairTurn(a, Prompt(PairTurnsTaken + 1), 1,
                           << <<"1">>, TextA, TextB, reply >>)

SpecPair == Init /\ [][NextPair]_vars

\* SpecPlan: _determine_thinking_rounds applied to one reply.
InitPlan ==
    /\ TurnInit
    /\ NoInstances
    /\ ReplInit
    /\ fn_in \in PlanInputs
    /\ fn_out = <<>>

ApplyPlan ==
    /\ fn_out = <<>>
    /\ fn_out' = << DetermineThinkingRounds(fn_in), PlanRaises(fn_in) >>
    /\ UNCHANGED << fn_in, turnVars, pairVars, replVars >>

SpecPlan == InitPlan /\ [][ApplyPlan]_vars

\* SpecEval: _evaluate_responses applied to one reply and one list of alternatives.
InitEval ==
    /\ TurnInit
    /\ NoInstances
    /\ ReplInit
    /\ fn_in \in [evaluation : EvalInputs, current_best : {BestText},
                  alternatives : {AltTexts(n) : n \in 0..MaxEvalAlts}]
    /\ fn_out = <<>>

\* One call: the agent's fields are not assigned; the caller's list is the one
\* the call leaves behind.  The function is called twice on the same arguments.
ApplyEval ==
    /\ Len(fn_out) < 2
    /\ fn_out' = Append(fn_out, EvaluateResponses(fn_in.evaluation, fn_in.current_best,
                                                  fn_in.alternatives))
    /\ fn_in' = [fn_in EXCEPT !.alternatives = AlternativesAfterEval(@)]
    /\ UNCHANGED << turnVars, pairVars, replVars >>

SpecEval == InitEval /\ [][ApplyEval]_vars

\* SpecIdem: _evaluate_responses is called twice on one agent with the same
\* prompt, current_best and alternatives, before, between or after up to
\* MaxIdemTurns turns of that agent (one round, one alternative).  The
\* collaborator of the two calls is a deterministic stub: its reply is a
\* function of the messages it is sent, here of whether it is sent one message
\* or more.
StubReply(stub, messages) == stub[IF Len(messages) = 1 THEN 1 ELSE 2]

IdemReplies == { ReplyCurrent, ReplyOneFirst, <<"2">>, <<"SUP2", "2">>, ErrorString }

InitIdem ==
    /\ TurnInit
    /\ NoInstances
    /\ ReplInit
    /\ fn_in \in [prompt : {Prompt(0)}, current_best : {BestText},
                  alternatives : {AltTexts(n) : n \in 0..MaxEvalAlts},
                  stub : [1..2 -> IdemReplies]]
    /\ fn_out = <<>>

\* One call of _evaluate_responses from outside a turn (lines 96-145): the
\* request is built and sent, the reply parsed; no field of the agent is
\* assigned.  With the result fn_out records the messages that were sent and
\* the number of turns the agent had completed by then.
EvaluateDirect ==
    /\ pc = "idle"
    /\ Len(fn_out) < 2
    /\ LET messages == EvalMessagesOf(conversation_history, fn_in.prompt,
                                      fn_in.current_best, fn_in.alternatives)
           reply == StubReply(fn_in.stub, messages)
           ev == EvaluateResponses(reply, fn_in.current_best, fn_in.alternatives)
       IN  fn_out' = Append(fn_out, [winner |-> ev.winner,
                                     explanation |-> ev.explanation,
                                     raised |-> ev.raised,
                                     messages |-> messages, turns |-> turns])
    /\ fn_in' = [fn_in EXCEPT !.alternatives = AlternativesAfterEval(@)]
    /\ UNCHANGED << conversation_history, full_thinking_log, pc, user_input,
                    num_alternatives, thinking_rounds, current_best, thinking_history,
                    round_num, alternatives, alt_index, result, turns, all_messages,
                    calls, decisions, pairVars, replVars >>

NextIdem ==
    \/ EvaluateDirect
    \/ turns < MaxIdemTurns /\ StartTurn(Prompt(turns + 1), 1)
    \/ PlanCall(<<"1">>)
    \/ InitialCall(TextA)
    \/ AltCall(TextB)
    \/ \E reply \in { ReplyCurrent, ReplyOneFirst } : EvalCall(reply)

SpecIdem == InitIdem /\ [][NextIdem]_vars

-----------------------------------------------------------------------------
(* Properties.                                                              *)

Completed == pc = "idle" /\ result # <<>>

\* The candidates of a trace tagged with round r, and the selected ones among them.
OfRound(th, r) == {i \in DOMAIN th : th[i].round = r}
SelectedOfRound(th, r) == {i \in OfRound(th, r) : th[i].selected}

\* C1 (SpecPlan): whatever text the planning call returns, the number of rounds
\* _determine_thinking_rounds returns is an integer between 1 and 5.
Thm_C1 ==
    fn_out # <<>> => fn_out[1] \in Int /\ 1 <= fn_out[1] /\ fn_out[1] <= 5

\* The reply "-6" (a negative number, above 5 in size) has been planned as 5 rounds.
Wit_C1 == fn_in = <<"-", "6">> /\ fn_out = <<5, FALSE>>

\* C2 as stated (Spec): at the end of a completed turn every round 0..rounds has
\* exactly one selected candidate, and exactly one candidate is tagged round 0.
\* It is taken here on the turns whose rounds had alternatives to choose from,
\* which only narrows what is claimed.
Orig_C2 ==
    (Completed /\ num_alternatives >= 1) =>
        LET th == result[1].thinking_history
        IN  /\ \A r \in 0..result[1].thinking_rounds :
                   Cardinality(SelectedOfRound(th, r)) = 1
            /\ Cardinality(OfRound(th, 0)) = 1

\* C2 as amended (Spec): at the end of a completed turn exactly one candidate is
\* tagged round 0 and it is selected; in a round whose winner differed in text
\* from the current best the selected candidates of the round are exactly those
\* with the winner's text (at least one, and exactly one when the round's
\* alternatives are pairwise different); in a round that kept the current best
\* no candidate of the round is selected.
Thm_C2 ==
    Completed =>
        LET th == result[1].thinking_history
            rounds == result[1].thinking_rounds
        IN  /\ Cardinality(OfRound(th, 0)) = 1
            /\ Cardinality(SelectedOfRound(th, 0)) = 1
            /\ Len(decisions) = rounds
            /\ \A r \in 1..rounds :
                  LET d == decisions[r]
                      alts == d.alternatives
                  IN  /\ d.round = r
                      /\ d.changed = (d.winner # d.previous)
                      /\ d.changed =>
                            /\ SelectedOfRound(th, r) =
                                  {i \in OfRound(th, r) : th[i].response = d.winner}
                            /\ SelectedOfRound(th, r) # {}
                            /\ (\A i, j \in DOMAIN alts : i # j => alts[i] # alts[j])
                                  => Cardinality(SelectedOfRound(th, r)) = 1
                      /\ ~d.changed => SelectedOfRound(th, r) = {}

\* A completed turn of two rounds of two alternatives: one round kept the
\* current best, one replaced it.
Wit_C2 ==
    /\ Completed
    /\ num_alternatives = 2
    /\ result[1].thinking_rounds = 2
    /\ \E r \in 1..2 : decisions[r].changed
    /\ \E r \in 1..2 : ~decisions[r].changed

\* The messages of k completed turns: user_1, assistant_1, ..., user_k, assistant_k,
\* read from what the turns were given and what they answered.
TurnMessages(k) ==
    [i \in 1..(2 * k) |->
        IF i % 2 = 1
        THEN UserMsg(full_thinking_log[(i + 1) \div 2].user_input)
        ELSE AssistantMsg(full_thinking_log[i \div 2].final_response)]

LastOf(s, n) == SubSeq(s, Len(s) - n + 1, Len(s))

\* C3 (SpecConv): after k completed turns conversation_history holds the most
\* recent min(2k, 10) messages of user_1, assistant_1, ..., user_k, assistant_k,
\* in order, and never more than 10.
Thm_C3 ==
    LET k == turns
        n == IF 2 * k < 10 THEN 2 * k ELSE 10
    IN  /\ Len(full_thinking_log) = k
        /\ \A t \in 1..k : full_thinking_log[t].user_input = Prompt(t)
        /\ all_messages = TurnMessages(k)
        /\ Len(conversation_history) = n
        /\ Len(conversation_history) <= 10
        /\ conversation_history = LastOf(TurnMessages(k), n)

\* Six turns are over and the first turn's two messages have been evicted.
Wit_C3 ==
    /\ turns = 6
    /\ pc = "idle"
    /\ Len(conversation_history) = 10
    /\ conversation_history[1] = UserMsg(Prompt(2))
    /\ conversation_history[10].role = "assistant"

\* The calls of kind "alt" at the end of the call log.
RECURSIVE TrailingAlts(_)
TrailingAlts(cs) ==
    IF cs # <<>> /\ cs[Len(cs)].kind = "alt"
    THEN Append(TrailingAlts(SubSeq(cs, 1, Len(cs) - 1)), cs[Len(cs)].ret)
    ELSE <<>>

\* C4 (Spec): when _generate_alternatives has returned (the evaluation call is
\* next), its list has exactly num_alternatives texts and item i is what the
\* i-th alternative call of the round returned, an error string included; the
\* round issued exactly num_alternatives alternative calls.
Thm_C4 ==
    pc = "eval" =>
        /\ Len(alternatives) = num_alternatives
        /\ alternatives = TrailingAlts(calls)
        /\ \A i \in 1..num_alternatives :
              LET c == calls[Len(calls) - num_alternatives + i]
              IN  c.kind = "alt" /\ c.ret = alternatives[i]
        /\ \A i \in 1..num_alternatives :
              thinking_history[Len(thinking_history) - num_alternatives + i].response
                  = alternatives[i]

\* Both alternative calls of a round failed, and the list holds both error strings.
Wit_C4 ==
    /\ pc = "eval"
    /\ num_alternatives = 2
    /\ alternatives = << ErrorString, ErrorString >>

\* What the claims about _evaluate_responses speak of, read off the reply
\* alone: its non-empty lines, trimmed (ReplyLines); the first of them in lower
\* case (first, below); the first character of that line that str.isdigit()
\* accepts.
ReplyLines == EvalLines(fn_in.evaluation)
HasCurrent(first) == Contains(first, CurrentWord)
DigitAt(first) == {i \in DOMAIN first : IsDigit(first[i])}
HasDigit(first) == DigitAt(first) # {}
FirstDigitOf(first) ==
    first[CHOOSE i \in DigitAt(first) : \A j \in DigitAt(first) : i <= j]

\* The first decimal digit of the line: the first character int() gives a
\* value from 0 to 9.
DecimalAt(first) == {i \in DOMAIN first : IsDecimal(first[i])}
FirstDecimalOf(first) ==
    first[CHOOSE i \in DecimalAt(first) : \A j \in DecimalAt(first) : i <= j]

\* C5 (SpecEval): when the first non-empty line of the reply has no 'current' and
\* its first decimal digit d satisfies 1 <= d <= len(alternatives), the winner is
\* alternatives[d-1] (0-based); every other character of the line is ignored,
\* so '12' picks alternative 1.
Orig_C5 ==
    fn_out # <<>> =>
        LET lines == ReplyLines
            first == Lower(lines[1])
            alts == fn_in.alternatives
        IN  /\ (/\ lines # <<>>
                /\ ~HasCurrent(first)
                /\ DecimalAt(first) # {}
                /\ 1 <= DigitValue(FirstDecimalOf(first))
                /\ DigitValue(FirstDecimalOf(first)) <= Len(alts))
                  => fn_out[1].winner = alts[DigitValue(FirstDecimalOf(first))]
            /\ (fn_in.evaluation = <<"1", "2">> /\ Len(alts) >= 1)
                  => fn_out[1].winner = alts[1]

\* C6 (SpecEval): when the first non-empty line of the reply contains 'current'
\* in any letter case the winner is current_best, also when the line has a
\* digit that names an alternative; the reply 'current' alone gives the
\* placeholder rationale.
Thm_C6 ==
    fn_out # <<>> =>
        LET lines == ReplyLines
            first == Lower(lines[1])
        IN  /\ (lines # <<>> /\ HasCurrent(first))
                  => fn_out[1].winner = fn_in.current_best
            /\ fn_in.evaluation = CurrentWord => fn_out[1].explanation = Placeholder

\* '2 is better than Current', with alternative 2 at hand, has kept current_best.
Wit_C6 ==
    /\ fn_out # <<>>
    /\ fn_in.evaluation = <<"2", " ", "i", "s", " ", "b", "e", "t", "t", "e", "r", " ",
                            "t", "h", "a", "n", " ", "C", "u", "r", "r", "e", "n", "t">>
    /\ Len(fn_in.alternatives) = 3
    /\ fn_out[1].winner = BestText

\* C7 (SpecEval): when the reply yields no valid index (no non-empty line; a
\* first line with neither 'current' nor a digit; a first digit that is 0 or
\* above len(alternatives), or that has no integer value) the winner is
\* current_best.
Thm_C7 ==
    fn_out # <<>> =>
        LET lines == ReplyLines
            first == Lower(lines[1])
            invalid ==
                \/ lines = <<>>
                \/ lines # <<>> /\ ~HasCurrent(first) /\ ~HasDigit(first)
                \/ /\ lines # <<>>
                   /\ HasDigit(first)
                   /\ \/ ~IsDecimal(FirstDigitOf(first))
                      \/ DigitValue(FirstDigitOf(first)) = 0
                      \/ DigitValue(FirstDigitOf(first)) > Len(fn_in.alternatives)
        IN  invalid => fn_out[1].winner = fn_in.current_best

\* "7\nreason" with 3 alternatives has kept current_best.
Wit_C7 ==
    /\ fn_out # <<>>
    /\ fn_in.evaluation = <<"7", "\n", "r", "e", "a", "s", "o", "n">>
    /\ Len(fn_in.alternatives) = 3
    /\ fn_out[1].winner = BestText

\* The lines from the k-th on, each followed by a space but the last.
RECURSIVE SpacedFrom(_, _)
SpacedFrom(lines, k) ==
    IF k > Len(lines) THEN <<>>
    ELSE IF k = Len(lines) THEN lines[k]
    ELSE lines[k] \o <<" ">> \o SpacedFrom(lines, k + 1)

\* C8 (SpecEval): the rationale is the trimmed non-empty lines after the first,
\* joined by single spaces, whatever the choice; with at most one non-empty
\* line it is 'No explanation provided'.
Thm_C8 ==
    fn_out # <<>> =>
        LET lines == ReplyLines
        IN  /\ Len(lines) <= 1 => fn_out[1].explanation = Placeholder
            /\ Len(lines) > 1 => fn_out[1].explanation = SpacedFrom(lines, 2)

\* A reply whose choice fell back to current_best (7 of 3) and whose two
\* rationale lines, one of them padded, have been joined.
Wit_C8 ==
    /\ fn_out # <<>>
    /\ fn_in.evaluation = <<"7", "\n", "\t", "W", "h", "y", " ", "n", "o", "t", ".", " ",
                            "\n", "r", "e", "a", "s", "o", "n">>
    /\ Len(fn_in.alternatives) = 3
    /\ fn_out[1].winner = BestText
    /\ fn_out[1].explanation = <<"W", "h", "y", " ", "n", "o", "t", ".", " ",
                                 "r", "e", "a", "s", "o", "n">>

\* C9 (SpecEval): for every reply _evaluate_responses returns without raising,
\* and its winner is current_best or one of the alternatives.
Thm_C9 ==
    fn_out # <<>> =>
        /\ ~fn_out[1].raised
        /\ \/ fn_out[1].winner = fn_in.current_best
           \/ \E i \in DOMAIN fn_in.alternatives : fn_out[1].winner = fn_in.alternatives[i]

\* The first digit of the first line is a superscript two, which int() rejects,
\* and a 2 follows it: the call has returned current_best.
Wit_C9 ==
    /\ fn_out # <<>>
    /\ fn_in.evaluation = <<"SUP2", "2">>
    /\ Len(fn_in.alternatives) = 3
    /\ ~fn_out[1].raised
    /\ fn_out[1].winner = BestText

\* The scenario of C10: one round of two alternatives on 'Explain recursion',
\* and the evaluation answered "2\nmore concise".
Scenario_C10 ==
    /\ Completed
    /\ user_input = ExplainRecursion
    /\ result[1].thinking_rounds = 1
    /\ num_alternatives = 2
    /\ calls[Len(calls)].kind = "eval"
    /\ calls[Len(calls)].ret = ReplyTwoConcise

\* The initial answer and the two alternatives of the scenario are three
\* different texts.
DistinctTexts_C10 ==
    /\ alternatives[1] # alternatives[2]
    /\ alternatives[1] # result[1].thinking_history[1].response
    /\ alternatives[2] # result[1].thinking_history[1].response

\* C10 as stated (Spec): in that scenario the final trace has 4 candidates,
\* round 0's is selected, of round 1's exactly the chosen one is selected and
\* carries 'more concise', and conversation_history has grown by 2 messages.
\* It is taken here on three different texts, which only narrows what is
\* claimed.
Orig_C10 ==
    (Scenario_C10 /\ DistinctTexts_C10) =>
        LET th == result[1].thinking_history
        IN  /\ Len(th) = 4
            /\ SelectedOfRound(th, 0) # {}
            /\ \A i \in OfRound(th, 1) :
                  th[i].selected <=> th[i].alternative_number = 2
            /\ \A i \in SelectedOfRound(th, 1) : th[i].explanation = << MoreConcise >>
            /\ Len(conversation_history) = 2

\* C10 as amended (Spec): in that scenario, when the second alternative's text
\* differs from the initial answer's and from the first alternative's, the
\* final trace has 3 candidates (the initial answer and the two alternatives),
\* round 0's is selected, of round 1's exactly the second is selected and
\* carries 'more concise', and conversation_history has grown by 2 messages,
\* the prompt and the second alternative's text.
Thm_C10 ==
    (/\ Scenario_C10
     /\ alternatives[2] # result[1].thinking_history[1].response
     /\ alternatives[2] # alternatives[1])
        =>
        LET th == result[1].thinking_history
        IN  /\ Len(th) = 3
            /\ th[1].round = 0 /\ th[1].selected
            /\ OfRound(th, 1) = {2, 3}
            /\ ~th[2].selected /\ th[2].explanation = <<>>
            /\ th[3].selected /\ th[3].explanation = << MoreConcise >>
            /\ th[3].alternative_number = 2
            /\ result[1].response = alternatives[2]
            /\ conversation_history =
                  << UserMsg(ExplainRecursion), AssistantMsg(alternatives[2]) >>

\* The scenario has run on three different texts.
Wit_C10 ==
    /\ Scenario_C10
    /\ result[1].thinking_history[1].response = TextB
    /\ alternatives = << TextA, ErrorString >>
    /\ result[1].response = ErrorString


\* C11 (SpecConv): the step that completes a turn appends exactly one record to
\* full_thinking_log, leaving the earlier records as they were; the record holds
\* the user input, the final current_best, the round count and the full trace;
\* the step appends the pair {user: input}, {assistant: final current_best} to
\* conversation_history (of which the last 10 messages are kept) and returns the
\* same answer, round count and trace.  After k turns the log holds k records,
\* in turn order.
TurnCompletes_C11 ==
    /\ turns' = turns + 1
    /\ Len(full_thinking_log') = Len(full_thinking_log) + 1
    /\ SubSeq(full_thinking_log', 1, Len(full_thinking_log)) = full_thinking_log
    /\ LET record == full_thinking_log'[Len(full_thinking_log')]
           pair == << UserMsg(user_input), AssistantMsg(current_best') >>
           longer == conversation_history \o pair
       IN  /\ record.user_input = user_input
           /\ record.final_response = current_best'
           /\ record.thinking_rounds = thinking_rounds
           /\ record.thinking_history = thinking_history'
           /\ conversation_history' = LastOf(longer, Min(Len(longer), HistoryLimit))
           /\ result' = << [response |-> current_best',
                            thinking_rounds |-> thinking_rounds,
                            thinking_history |-> thinking_history'] >>

Thm_C11 ==
    /\ [](/\ Len(full_thinking_log) = turns
          /\ \A k \in DOMAIN full_thinking_log :
                 full_thinking_log[k].user_input = Prompt(k))
    /\ [][ (full_thinking_log' # full_thinking_log \/ turns' # turns
                \/ (pc # "idle" /\ pc' = "idle"))
           => TurnCompletes_C11 ]_vars

\* Two turns are completed, the first kept its initial answer and the second
\* ended on its alternative: the log holds both records.
Wit_C11 ==
    /\ Completed /\ turns = 2
    /\ Len(full_thinking_log) = 2
    /\ full_thinking_log[1].final_response = TextA
    /\ full_thinking_log[2].final_response = TextB
    /\ Len(full_thinking_log[2].thinking_history) = 2


\* The current best the alternatives of round r are asked to improve on: the
\* initial answer in round 1, the winner of round r - 1 after that.
BaseOfRound(r) ==
    IF r = 1 THEN thinking_history[1].response ELSE decisions[r - 1].winner

AltCallsOfRound(r) == {i \in DOMAIN calls : calls[i].kind = "alt" /\ calls[i].round = r}

\* C12 (SpecCtx): from the start of a turn until its rounds are finished
\* conversation_history and full_thinking_log do not change; all the alternative
\* calls of a round are given the same conversation context and the same
\* current_best; and current_best changes only when the initial answer or a
\* round's evaluation has returned.
Thm_C12 ==
    /\ [](/\ \A r \in 1..5 : \A i, j \in AltCallsOfRound(r) :
                 calls[i].messages = calls[j].messages
          /\ pc \in { "plan", "initial", "alt", "eval" } =>
                 \A i \in DOMAIN calls :
                     calls[i].kind = "alt" =>
                         calls[i].messages =
                             conversation_history \o
                                 << UserMsg(AltPrompt(user_input,
                                                      BaseOfRound(calls[i].round))) >>)
    /\ [][ /\ turns' = turns =>
                  UNCHANGED << conversation_history, full_thinking_log >>
           /\ (pc \in { "plan", "initial", "alt", "eval" }
                   /\ current_best' # current_best) =>
                  pc \in { "initial", "eval" } ]_vars

\* In the second turn, after round 1 replaced the initial answer, both
\* alternative calls of round 2 have been made behind the first turn's messages.
Wit_C12 ==
    /\ turns = 1 /\ pc = "eval" /\ round_num = 2
    /\ Len(conversation_history) = 2
    /\ thinking_history[1].response = TextA
    /\ current_best = TextB
    /\ Cardinality(AltCallsOfRound(1)) = 2
    /\ Cardinality(AltCallsOfRound(2)) = 2


\* The call of a kind made in round r, and what the i-th alternative call of
\* round r returned.
EvalCallOfRound(r) == CHOOSE k \in DOMAIN calls : calls[k].kind = "eval" /\ calls[k].round = r
NthAltReturn(r, i) ==
    LET S == AltCallsOfRound(r)
        k == CHOOSE k \in S : Cardinality({j \in S : j < k}) = i - 1
    IN  calls[k].ret
\* The alternative an evaluation reply of Spec names: they start with their choice.
PickedIndex(reply) == IF reply[1] = "1" THEN 1 ELSE IF reply[1] = "2" THEN 2 ELSE 0

\* What holds of a failed initial call: its error string is the round-0
\* candidate, selected, and the current best of round 1.
FailedInitial_C13 ==
    \A k \in DOMAIN calls :
        (calls[k].kind = "initial" /\ calls[k].ret = ErrorString) =>
            /\ thinking_history[1].round = 0
            /\ thinking_history[1].response = ErrorString
            /\ thinking_history[1].selected
            /\ decisions = <<>> => current_best = ErrorString

\* What is claimed of round r when its evaluation picked a failed alternative.
FailedAlternativeWins_C13(r) ==
    LET i == PickedIndex(calls[EvalCallOfRound(r)].ret)
    IN  /\ decisions[r].winner = ErrorString
        /\ \A k \in DOMAIN thinking_history :
               (thinking_history[k].round = r
                    /\ thinking_history[k].alternative_number = i) =>
                   /\ thinking_history[k].response = ErrorString
                   /\ thinking_history[k].selected
        /\ r = Len(decisions) => current_best = ErrorString

PickedFailed_C13(r) ==
    LET i == PickedIndex(calls[EvalCallOfRound(r)].ret)
    IN  i \in 1..num_alternatives /\ NthAltReturn(r, i) = ErrorString

\* C13 as stated (Spec): no call raises into the core; a failed initial call
\* becomes the round-0 candidate and current_best; a failed alternative whose
\* index the evaluator picks becomes current_best and is marked selected.
Orig_C13 ==
    /\ pc # "raised"
    /\ FailedInitial_C13
    /\ \A r \in DOMAIN decisions : PickedFailed_C13(r) => FailedAlternativeWins_C13(r)

\* C13 as amended (Spec): the same, the failed alternative being marked selected
\* when current_best is not itself the error string; when it is, the round keeps
\* current_best (still the error string) and selects no candidate of the round.
Thm_C13 ==
    /\ pc # "raised"
    /\ FailedInitial_C13
    /\ \A r \in DOMAIN decisions :
           PickedFailed_C13(r) =>
               IF decisions[r].previous # ErrorString
               THEN FailedAlternativeWins_C13(r)
               ELSE /\ decisions[r].winner = ErrorString
                    /\ ~decisions[r].changed
                    /\ SelectedOfRound(thinking_history, r) = {}

\* A turn whose initial answer was a text has ended on a failed alternative:
\* the error string is the final answer and a selected candidate of a round.
Wit_C13 ==
    /\ Completed
    /\ thinking_history[1].response = TextA
    /\ result[1].response = ErrorString
    /\ \E k \in DOMAIN thinking_history :
           /\ thinking_history[k].round >= 1
           /\ thinking_history[k].response = ErrorString
           /\ thinking_history[k].selected


\* C14 (SpecPlan): when the planning reply holds no digit (an empty reply, plain
\* words, the error string), or the digits taken from it do not convert to an
\* integer, _determine_thinking_rounds returns 3; and it never raises.
Thm_C14 ==
    fn_out # <<>> =>
        LET noDigit == \A i \in DOMAIN fn_in : ~IsDigit(fn_in[i])
            notDecimal == \E i \in DOMAIN fn_in : IsDigit(fn_in[i]) /\ ~IsDecimal(fn_in[i])
        IN  /\ ~fn_out[2]
            /\ (noDigit \/ notDecimal) => fn_out[1] = 3

\* The reply "1" followed by a superscript two, whose digits int() rejects, has
\* been planned as 3 rounds.
Wit_C14 == fn_in = <<"1", "SUP2">> /\ fn_out = <<3, FALSE>>


\* C15 (Spec): within a turn the trace only grows.  No step of a running turn
\* removes or reorders a candidate or changes its text, round or alternative
\* number; the trace grows by the initial answer, then by exactly N candidates
\* per round, put after all existing entries, tagged with the round, numbered
\* 1..N in generation order and unselected when stored; a completed turn's
\* trace has 1 + rounds * N candidates in non-decreasing round order.
GrowsOnly_C15 ==
    pc \in { "plan", "initial", "alt", "eval" } =>
        /\ Len(thinking_history') >= Len(thinking_history)
        /\ \A k \in DOMAIN thinking_history :
               /\ thinking_history'[k].response = thinking_history[k].response
               /\ thinking_history'[k].round = thinking_history[k].round
               /\ thinking_history'[k].alternative_number =
                      thinking_history[k].alternative_number
        /\ Len(thinking_history') # Len(thinking_history) =>
               \/ pc = "initial" /\ Len(thinking_history') = 1
               \/ /\ pc = "alt" /\ pc' = "eval"
                  /\ Len(thinking_history') = Len(thinking_history) + num_alternatives
                  /\ \A i \in 1..num_alternatives :
                         LET c == thinking_history'[Len(thinking_history) + i]
                         IN  /\ c.round = round_num
                             /\ c.alternative_number = i
                             /\ c.response = alternatives'[i]
                             /\ ~c.selected
                             /\ c.explanation = <<>>

Thm_C15 ==
    /\ [](/\ \A i, j \in DOMAIN thinking_history :
                 i < j => thinking_history[i].round <= thinking_history[j].round
          /\ pc = "alt" => Len(thinking_history) = 1 + (round_num - 1) * num_alternatives
          /\ pc = "eval" => Len(thinking_history) = 1 + round_num * num_alternatives
          /\ Completed =>
                 LET th == result[1].thinking_history
                     n == num_alternatives
                 IN  /\ Len(th) = 1 + result[1].thinking_rounds * n
                     /\ th[1].round = 0
                     /\ \A r \in 1..result[1].thinking_rounds : \A i \in 1..n :
                            /\ th[1 + (r - 1) * n + i].round = r
                            /\ th[1 + (r - 1) * n + i].alternative_number = i
                            /\ th[1 + (r - 1) * n + i].response =
                                   decisions[r].alternatives[i])
    /\ [][GrowsOnly_C15]_vars

\* A turn of two rounds of two alternatives is completed: five candidates, the
\* last of them the second alternative of round 2.
Wit_C15 ==
    /\ Completed
    /\ result[1].thinking_rounds = 2 /\ num_alternatives = 2
    /\ Len(result[1].thinking_history) = 5
    /\ result[1].thinking_history[5].round = 2
    /\ result[1].thinking_history[5].alternative_number = 2
    /\ result[1].thinking_history[2].response # result[1].thinking_history[3].response


\* C16 (SpecPair): however the turns of two instances are interleaved, the
\* conversation_history and full_thinking_log of each are what that instance
\* would hold had it taken its own turns alone, and so is the context each
\* turn read and sent to the model; the instances share no list.
Thm_C16 ==
    /\ \A a \in DOMAIN agents :
           /\ heap[agents[a].conversation_history] = alone[a].conversation_history
           /\ heap[agents[a].full_thinking_log] = alone[a].full_thinking_log
           /\ agents[a].sent = alone[a].sent
    /\ \A a, b \in DOMAIN agents :
           a # b =>
               { agents[a].conversation_history, agents[a].full_thinking_log }
                   \cap { agents[b].conversation_history, agents[b].full_thinking_log } = {}

\* The second instance took turn 2 between turns of the first, which has taken
\* six and had its conversation cut to the last ten messages.
Wit_C16 ==
    /\ Len(agents) = 2
    /\ Len(heap[agents[1].full_thinking_log]) = 6
    /\ Len(heap[agents[2].full_thinking_log]) = 1
    /\ heap[agents[2].full_thinking_log][1].user_input = Prompt(2)
    /\ heap[agents[2].conversation_history][2] = AssistantMsg(TextB)
    /\ Len(heap[agents[1].conversation_history]) = 10
    /\ heap[agents[1].conversation_history][1] = UserMsg(Prompt(3))


\* C17 (SpecIdem): _evaluate_responses called a second time with the same
\* prompt, current_best and list of alternatives, in whatever state the agent
\* is by then and with a collaborator whose reply is a function of the messages
\* it is sent, yields the same winner and rationale as the first call; and a
\* call changes neither conversation_history, full_thinking_log nor the
\* alternatives it was given.
Thm_C17 ==
    /\ [](Len(fn_out) = 2 =>
              /\ fn_out[2].winner = fn_out[1].winner
              /\ fn_out[2].explanation = fn_out[1].explanation)
    /\ [][ fn_out' # fn_out =>
               /\ fn_in'.alternatives = fn_in.alternatives
               /\ UNCHANGED << conversation_history, full_thinking_log >> ]_vars

\* The first call was made on the new agent and the second after a turn had
\* been recorded in its conversation; the stub, which would have answered
\* 'current' to more than one message, was sent the same single message and
\* both calls chose the second of three alternatives.
Wit_C17 ==
    /\ Len(fn_out) = 2
    /\ fn_in.stub = << <<"2">>, ReplyCurrent >>
    /\ fn_in.alternatives = AltTexts(3)
    /\ fn_out[1].turns = 0
    /\ fn_out[2].turns = 1
    /\ fn_out[2].messages = fn_out[1].messages
    /\ Len(conversation_history) = 2
    /\ fn_out[1].winner = AltText(2)
    /\ fn_out[2].winner = AltText(2)


\* The kind and the round of the k-th call of a turn of n alternatives a round.
ExpectedKind(k, n) ==
    IF k = 1 THEN "plan"
    ELSE IF k = 2 THEN "initial"
    ELSE IF (k - 3) % (n + 1) < n THEN "alt" ELSE "eval"
ExpectedRound(k, n) == IF k <= 2 THEN 0 ELSE ((k - 3) \div (n + 1)) + 1

OneCallAStep_C18 ==
    pc \in { "plan", "initial", "alt", "eval" } =>
        /\ Len(calls') = Len(calls) + 1
        /\ SubSeq(calls', 1, Len(calls)) = calls

\* C18 (SpecLive): the calls of a turn are issued one at a time in the order
\* planning, initial answer, then for each round 1..rounds exactly N alternative
\* calls and one evaluation call, 2 + rounds * (N + 1) in all; every step of a
\* running turn is the return of one call, failed or not, and issues none
\* again; and a turn that has started reaches its end and returns.
Thm_C18 ==
    /\ [](/\ \A k \in DOMAIN calls :
                 /\ calls[k].kind = ExpectedKind(k, num_alternatives)
                 /\ calls[k].round = ExpectedRound(k, num_alternatives)
          /\ pc \in { "plan", "initial", "alt", "eval" } =>
                 pc = ExpectedKind(Len(calls) + 1, num_alternatives)
          /\ pc \in { "alt", "eval" } =>
                 Len(calls) < 2 + thinking_rounds * (num_alternatives + 1)
          /\ Completed =>
                 Len(calls) = 2 + result[1].thinking_rounds * (num_alternatives + 1))
    /\ [][OneCallAStep_C18]_vars
    /\ (pc = "plan") ~> Completed

\* A turn of two rounds of two alternatives has ended after 8 calls, the
\* initial call and an alternative call of each round among the failed ones.
Wit_C18 ==
    /\ Completed
    /\ num_alternatives = 2 /\ result[1].thinking_rounds = 2
    /\ Len(calls) = 8
    /\ calls[2].ret = ErrorString
    /\ calls[3].ret = ErrorString
    /\ calls[7].ret = ErrorString


\* The first run of consecutive digit characters of a text (<<>>: none).
FirstDigitRun(t) ==
    LET ds == {i \in DOMAIN t : IsDigit(t[i])}
    IN  IF ds = {} THEN <<>>
        ELSE LET a == CHOOSE i \in ds : \A j \in ds : i <= j
                 ends == {j \in a..Len(t) : \A k \in a..j : IsDigit(t[k])}
                 b == CHOOSE j \in ends : \A k \in ends : k <= j
             IN  SubSeq(t, a, b)

\* C19 as stated (SpecPlan): the round count is the value of the first run of
\* consecutive decimal digits of the reply, clamped to 1..5; digits after that
\* run have no effect.
Orig_C19 ==
    fn_out # <<>> =>
        LET run == FirstDigitRun(fn_in)
        IN  (run # <<>> /\ \A i \in DOMAIN fn_in : IsDigit(fn_in[i]) => IsDecimal(fn_in[i]))
                => fn_out[1] = Min(Max(DecimalValue(run), 1), 5)

\* What a round that keeps current_best is claimed to do with the rationale:
\* of the selected candidates with the text of current_best, one of the latest
\* round receives it and those of earlier rounds are left as they were.
KeepAttachesLatest_C20 ==
    (/\ pc = "eval"
     /\ Len(decisions') = Len(decisions) + 1
     /\ ~decisions'[Len(decisions')].changed)
        =>
        LET th == thinking_history
            hits == {k \in DOMAIN th : th[k].selected /\ th[k].response = current_best}
            latest == {k \in hits : \A j \in hits : th[j].round <= th[k].round}
        IN  /\ \E k \in latest :
                   thinking_history'[k].explanation =
                       << decisions'[Len(decisions')].explanation >>
            /\ \A j \in hits \ latest : thinking_history'[j] = th[j]

\* C20 as stated (Spec): when a round keeps current_best the rationale is
\* attached to the most recently selected candidate whose text equals
\* current_best, and earlier selected candidates with that text are unchanged.
Orig_C20 == [][KeepAttachesLatest_C20]_vars


\* C21 as stated (Spec): in a round whose winner differs in text from
\* current_best exactly one candidate tagged with the round becomes selected,
\* the one at the index the evaluator chose; it holds the winner's text, which
\* is the new current_best, and it receives the rationale.  Alternatives of the
\* round with identical texts are not excepted.
Orig_C21 ==
    \A r \in DOMAIN decisions :
        decisions[r].changed =>
            LET i == PickedIndex(calls[EvalCallOfRound(r)].ret)
                sel == SelectedOfRound(thinking_history, r)
            IN  /\ Cardinality(sel) = 1
                /\ \A k \in sel :
                       /\ thinking_history[k].alternative_number = i
                       /\ thinking_history[k].response = decisions[r].winner
                /\ r = Len(decisions) =>
                       /\ current_best = decisions[r].winner
                       /\ \A k \in sel :
                              thinking_history[k].explanation =
                                  << decisions[r].explanation >>


\* What the evaluation step of a round does when the alternative the evaluator
\* picked has the text of current_best: current_best stays, no candidate of the
\* round is selected, and the trace changes in nothing but the rationale of one
\* candidate that was selected before the step and holds the text of
\* current_best.
KeptOnEqualText_C22 ==
    (pc = "eval" /\ Len(decisions') = Len(decisions) + 1) =>
        LET i == PickedIndex(calls'[Len(calls')].ret)
            d == decisions'[Len(decisions')]
        IN  (i \in 1..Len(alternatives) /\ alternatives[i] = current_best) =>
                /\ current_best' = current_best
                /\ SelectedOfRound(thinking_history', round_num) = {}
                /\ \E k \in DOMAIN thinking_history :
                       /\ thinking_history[k].selected
                       /\ thinking_history[k].round < round_num
                       /\ thinking_history[k].response = current_best
                       /\ thinking_history' =
                              [thinking_history EXCEPT ![k].explanation = << d.explanation >>]

\* C22 (Spec): whether a round counts as a change is decided by the texts, not
\* by the index chosen: when the evaluator picks an alternative whose text is
\* that of current_best the round is handled as kept - no candidate of the
\* round is marked selected, current_best is unchanged and the rationale goes
\* to a candidate that was selected already.
Thm_C22 == [][KeptOnEqualText_C22]_vars

\* A round has ended in which the evaluator picked alternative 1, whose text
\* was that of the current best, with the rationale 'first'.
Wit_C22 ==
    /\ decisions # <<>>
    /\ LET d == decisions[Len(decisions)]
           i == PickedIndex(calls[EvalCallOfRound(d.round)].ret)
       IN  /\ i = 1
           /\ num_alternatives >= 1
           /\ d.alternatives[i] = d.previous
           /\ d.explanation = <<"f", "i", "r", "s", "t">>
           /\ SelectedOfRound(thinking_history, d.round) = {}
           /\ \E k \in DOMAIN thinking_history :
                  /\ thinking_history[k].selected
                  /\ thinking_history[k].explanation = << d.explanation >>


\* What a step of round round_num leaves alone: every candidate tagged with an
\* earlier round keeps its place, its text and its selected flag.
EarlierRoundsKeepFlags_C23 ==
    pc \in { "alt", "eval" } =>
        \A k \in DOMAIN thinking_history :
            thinking_history[k].round < round_num =>
                /\ k \in DOMAIN thinking_history'
                /\ thinking_history'[k].round = thinking_history[k].round
                /\ thinking_history'[k].response = thinking_history[k].response
                /\ thinking_history'[k].selected = thinking_history[k].selected

\* C23 (Spec): a round never changes the selected flag of a candidate tagged
\* with an earlier round: an alternative rejected earlier stays unselected even
\* when a later winner has its text, and a superseded winner (the round-0
\* answer included) is never reset to unselected.
Thm_C23 == [][EarlierRoundsKeepFlags_C23]_vars

\* Round 2 has chosen an alternative with the text of an alternative that
\* round 1 rejected: that one is still unselected, and the round-0 answer,
\* superseded now, is still selected.
Wit_C23 ==
    /\ Len(decisions) = 2
    /\ ~decisions[1].changed
    /\ decisions[2].changed
    /\ thinking_history[1].selected
    /\ thinking_history[1].response # current_best
    /\ \E k \in OfRound(thinking_history, 1) :
           /\ ~thinking_history[k].selected
           /\ thinking_history[k].response = decisions[2].winner
    /\ \E j \in SelectedOfRound(thinking_history, 2) :
           thinking_history[j].response = decisions[2].winner


\* The place of alternative call k among the alternative calls of its round,
\* counted from 0.
AltPlace(k) ==
    Cardinality({j \in AltCallsOfRound(calls[k].round) : j < k})

\* C24 as stated (SpecTemp): every call the core issues carries a temperature
\* within [0, 2] (0 to 20 tenths), for every num_alternatives: planning 0.3, evaluation 0.2, the
\* initial answer 0.7, and the i-th alternative of a round (i from 0)
\* 0.7 + 0.1*i, strictly increasing in i.
Orig_C24 ==
    \A k \in DOMAIN calls :
        /\ 0 <= calls[k].temperature
        /\ calls[k].temperature <= 20
        /\ calls[k].kind = "plan" => calls[k].temperature = 3
        /\ calls[k].kind = "eval" => calls[k].temperature = 2
        /\ calls[k].kind = "initial" => calls[k].temperature = 7
        /\ calls[k].kind = "alt" =>
               /\ calls[k].temperature = 7 + AltPlace(k)
               /\ \A j \in AltCallsOfRound(calls[k].round) :
                      j < k => calls[j].temperature < calls[k].temperature


\* The texts of the content items of a stream, in arrival order.
RECURSIVE ContentTexts(_)
ContentTexts(items) ==
    IF items = <<>> THEN <<>>
    ELSE IF Head(items).kind = "content"
         THEN << Head(items).text >> \o ContentTexts(Tail(items))
         ELSE ContentTexts(Tail(items))

\* Whether the stream fails part-way: the transport fails before the stream
\* is drained, or the stream delivers an item the adapter cannot read.
FailsPartWay(inp) ==
    \/ inp.failed
    \/ \E i \in DOMAIN inp.items : inp.items[i].kind = "badshape"

\* C25 (SpecStream): a streaming call resolves to one value and raises nothing:
\* the concatenation, in arrival order, of every content chunk of the stream
\* when the stream is drained, and the adapter's fixed error string when the
\* stream fails part-way; the text collected before the failure is not returned.
Thm_C25 ==
    fn_out # <<>> =>
        LET full == Concat(ContentTexts(fn_in.items))
            error == IF fn_in.use_openrouter THEN OpenRouterErrorString
                     ELSE OpenAiErrorString
        IN  /\ Len(fn_out) = 1
            /\ ~fn_out[1].raised
            /\ ~FailsPartWay(fn_in) => fn_out[1].text = full
            /\ FailsPartWay(fn_in) => fn_out[1].text = error /\ fn_out[1].text # full

\* An OpenRouter stream delivered a content line, a line that is not JSON and
\* a line the adapter cannot read, and the transport did not fail: the call
\* resolved to the error string.
Wit_C25 ==
    /\ fn_out # <<>>
    /\ fn_in.use_openrouter
    /\ ~fn_in.failed
    /\ fn_in.items = << Content(TextA), MalformedLine, BadShape >>
    /\ fn_out[1].text = OpenRouterErrorString


\* The reserved words of the interactive loop.
ReservedWords == { CmdExit, CmdSave, CmdSaveFull, CmdSaveMd }

\* What one iteration of the loop does with the line it has read (line').
LoopIteration_C26 ==
    repl = "prompt" =>
        LET typed == Strip(line')
            reserved == Lower(typed) \in ReservedWords \/ typed = <<>>
        IN  /\ reserved =>
                /\ turns' = turns
                /\ conversation_history' = conversation_history
                /\ full_thinking_log' = full_thinking_log
            /\ ~reserved =>
                /\ turns' = turns + 1
                /\ Len(full_thinking_log') = Len(full_thinking_log) + 1
                /\ full_thinking_log'[Len(full_thinking_log')].user_input = typed
                /\ Len(files') = Len(files) + 1
                /\ files'[Len(files')].kind = "markdown"
                /\ files'[Len(files')].user_input = typed
                /\ files'[Len(files')].response =
                       full_thinking_log'[Len(full_thinking_log')].final_response
            /\ (Lower(typed) = CmdSaveMd /\ turns = 0) => files' = files

\* C26 (SpecRepl): in the interactive loop the inputs exit, save, save full and
\* save md, in any letter case and after trimming, and the empty line start no
\* turn and leave conversation_history and full_thinking_log unchanged; every
\* other input starts exactly one turn, followed by one markdown auto-save;
\* save md entered before any turn has completed writes nothing.
Thm_C26 == [][LoopIteration_C26]_vars

\* After one turn 'Save MD' followed by a tab was typed: no further turn, the
\* history of the one turn, and the markdown file written a second time.
Wit_C26 ==
    /\ line = <<"S", "a", "v", "e", " ", "M", "D", "\t">>
    /\ repl = "prompt"
    /\ turns = 1
    /\ Len(conversation_history) = 2
    /\ Len(full_thinking_log) = 1
    /\ Len(files) = 2
    /\ files[1].kind = "markdown"
    /\ files[2] = files[1]


\* A trace holds a selected candidate with a text.
SelectedWith(th, text) ==
    \E k \in DOMAIN th : th[k].selected /\ th[k].response = text

\* C27 (Spec): at every point of a turn after the initial answer current_best is
\* the text of at least one selected candidate of the trace; so the final
\* answer, as returned and as stored in the log and in the conversation, is in
\* the trace as a selected candidate.
Thm_C27 ==
    /\ pc \in { "alt", "eval" } => SelectedWith(thinking_history, current_best)
    /\ Completed =>
          /\ SelectedWith(result[1].thinking_history, result[1].response)
          /\ LET rec == full_thinking_log[Len(full_thinking_log)]
             IN  /\ rec.final_response = result[1].response
                 /\ SelectedWith(rec.thinking_history, rec.final_response)
          /\ conversation_history[Len(conversation_history)] =
                 AssistantMsg(result[1].response)

\* A turn has ended on an answer that round 2 chose, after round 1 had chosen
\* another one: three candidates are selected and the last of them is the
\* final answer.
Wit_C27 ==
    /\ Completed
    /\ Len(decisions) = 2
    /\ decisions[1].changed
    /\ decisions[2].changed
    /\ result[1].response # thinking_history[1].response
    /\ \E k \in SelectedOfRound(result[1].thinking_history, 2) :
           result[1].thinking_history[k].response = result[1].response


\* A sequence of messages takes the roles user, assistant, user, ... in turn.
Alternates(ms) ==
    \A i \in DOMAIN ms : ms[i].role = IF i % 2 = 1 THEN "user" ELSE "assistant"

\* C28 (SpecConv): conversation_history has even length and alternates user,
\* assistant from a user message to an assistant message, before and after the
\* eviction down to 10 messages; so no call is sent two adjacent messages of
\* the same role, the context followed by the new user message included.
Thm_C28 ==
    /\ Len(conversation_history) % 2 = 0
    /\ Alternates(conversation_history)
    /\ \A k \in DOMAIN calls :
           /\ Alternates(calls[k].messages)
           /\ calls[k].messages[Len(calls[k].messages)].role = "user"
           /\ (calls[k].kind \in { "initial", "alt" } /\ pc # "idle") =>
                  SubSeq(calls[k].messages, 1, Len(calls[k].messages) - 1)
                      = conversation_history

\* The sixth turn has completed: the conversation holds the 10 newest messages,
\* the oldest a user's, and the calls of that turn were sent 11 messages.
Wit_C28 ==
    /\ Completed
    /\ turns = 6
    /\ Len(conversation_history) = HistoryLimit
    /\ conversation_history[1] = UserMsg(Prompt(2))
    /\ \E k \in DOMAIN calls : Len(calls[k].messages) = HistoryLimit + 1


\* A step that does not complete a turn leaves the two lists as they are: the
\* start of a turn, a call that returns within it, a call that raises.
NoPartialTurn_C29 ==
    pc' # "idle" =>
        /\ conversation_history' = conversation_history
        /\ full_thinking_log' = full_thinking_log

\* C29 (SpecRaise): when a call of the model raises in the middle of a turn the
\* exception leaves think_and_respond, and conversation_history and
\* full_thinking_log are as they were before the turn started: nothing of the
\* turn is recorded.
Thm_C29 ==
    /\ [][NoPartialTurn_C29]_vars
    /\ [](pc = "raised" =>
              /\ conversation_history = TrimHistory(all_messages)
              /\ Len(all_messages) = 2 * turns
              /\ Len(full_thinking_log) = turns)

\* The second turn was left by an exception at the evaluation call of its
\* round 1, after its alternatives had been stored: the lists hold the first
\* turn only.
Wit_C29 ==
    /\ pc = "raised"
    /\ turns = 1
    /\ Len(calls) = 4
    /\ Len(thinking_history) = 3
    /\ user_input = Prompt(2)
    /\ conversation_history = SubSeq(all_messages, 1, 2)
    /\ conversation_history[1] = UserMsg(Prompt(1))
    /\ Len(full_thinking_log) = 1


\* What a round that keeps current_best is claimed to do to a candidate that
\* already held a rationale, written by one earlier round alone and different
\* from the new one: the candidate holds the new rationale, and the old one is
\* held by no candidate of the trace any more.
RationaleOverwritten_C30 ==
    (/\ pc = "eval"
     /\ Len(decisions') = Len(decisions) + 1
     /\ ~decisions'[Len(decisions')].changed)
        =>
        \A k \in DOMAIN thinking_history :
            LET old == thinking_history[k].explanation
                new == << decisions'[Len(decisions')].explanation >>
            IN  (/\ thinking_history'[k] # thinking_history[k]
                 /\ old # <<>>
                 /\ old # new
                 /\ Cardinality({r \in DOMAIN decisions :
                                    decisions[r].explanation = old[1]}) = 1)
                    =>
                    /\ thinking_history'[k].explanation = new
                    /\ \A j \in DOMAIN thinking_history' :
                           thinking_history'[j].explanation # old

\* C30 as stated (Spec): a candidate holds at most one rationale; when a round
\* keeps current_best and the candidate receiving the rationale already has
\* one from an earlier round, the earlier one is overwritten and is retained
\* nowhere in the trace.
Orig_C30 ==
    /\ [](\A k \in DOMAIN thinking_history : Len(thinking_history[k].explanation) <= 1)
    /\ [][RationaleOverwritten_C30]_vars

=============================================================================
